---- MODULE Spec2Model ----
(***************************************************************************)
(* GovBot-Prototype: the indexing synchronizer                             *)
(* (app/core/rag/indexer.py) and the chat endpoint                         *)
(* (app/api/endpoints/chat_endpoints.py) as state machines.                *)
(*                                                                         *)
(* SpecIndex: runs of index_documents_by_collection over a table of        *)
(*            webpages and a vector store.                                 *)
(* SpecChat : POST /chat/ requests over the chat tables.                   *)
(* SpecDelete: SpecChat with DELETE /chat/{session_id} requests.           *)
(* SpecBackground: the runs as tasks made by start_background_indexing.    *)
(* SpecIngest: SpecIndex with the crawler writing rows meanwhile.          *)
(* SpecTruncate, SpecCombine: truncate_message_history and                 *)
(*            combine_message_histories (app/core/orchestrator.py) on      *)
(*            arguments drawn from bounded sets.                           *)
(* SpecGet  : POST /chat/ turns with GET /chat/{session_id} requests.      *)
(* SpecHistory: GET /chat/{session_id} over stored rows of any content.    *)
(* SpecPii  : detect_pii and redact_pii (app/utils/pii.py) on texts drawn  *)
(*            from a bounded set.                                          *)
(* SpecRedact: redact_pii on a text and a list of matches given by the     *)
(*            caller.                                                      *)
(* SpecLongChat: POST /chat/ turns on a session with a long stored log.    *)
(* SpecMark : one call of mark_documents_as_indexed on a list of ids.      *)
(* SpecFollowUp: a FollowUpQuestions container                             *)
(*            (app/models/follow_up_questions.py) and add_question.        *)
(***************************************************************************)
EXTENDS Integers, Sequences, FiniteSets, TLC

(***************************************************************************)
(* Bounds                                                                  *)
(***************************************************************************)
\* runs of index_documents_by_collection, any number of them concurrent
MaxRuns == 2
\* POST /chat/ requests, any number of them concurrent
MaxReqs == 3
\* messages one agent run adds to the transcript
MaxNew == 2
\* DELETE /chat/{session_id} requests, any number of them concurrent
MaxDels == 2
\* writes of the crawler to rows of the table while runs are under way
MaxCrawls == 1
\* length of the history handed to truncate_message_history
MaxHistory == 4
\* max_messages handed to truncate_message_history: 0..MaxMessages
MaxMessages == 3
\* length of each list handed to combine_message_histories
MaxLen == 2
\* message ids in the lists handed to combine_message_histories: 1..MaxId
MaxId == 3
\* POST /chat/ requests that run beside the GET requests
MaxTurns == 2
\* rows of the session a history is read from
MaxRows == 3
\* items joined into a text for detect_pii
MaxItems == 3
\* rows of the session a long conversation starts with
MaxLog == 21
\* ids handed to mark_documents_as_indexed when it is called on its own
MaxIds == 3
\* characters of a text handed to redact_pii with a match list
MaxText == 4
\* matches of such a list
MaxSpans == 2
\* questions handed to the constructor of FollowUpQuestions
MaxQuestions == 11
\* total_count handed to it
MaxCount == 2

(***************************************************************************)
(* The webpages table (rows deposited by the crawler).  A row's id,        *)
(* collection and content are fixed during indexing; the indexer only      *)
(* writes is_indexed / indexed_at.                                         *)
(***************************************************************************)
\* ids of the rows of the table
Docs == {1, 2, 3, 4, 5, 6}
Runs == 1..MaxRuns
Collections == {"c1", "c2"}

\* Webpage.collection_id
CollectionOf(d) == IF d = 1 THEN "c2" ELSE "c1"

\* Webpage.content_markdown: NULL, the empty string, a text of one chunk or
\* a text that SentenceSplitter(chunk_size=1024, chunk_overlap=200) cuts in two
ContentOf(d) ==
    CASE d = 2 -> "null"
      [] d = 3 -> "long"
      [] d = 5 -> "empty"
      [] OTHER -> "short"

\* rows that were indexed by an earlier run (row 6), with their vectors in
\* the store
InitiallyIndexed == {d \in Docs : d = 6}

\* number of nodes the splitter makes of a document's text
NumChunks(d) ==
    CASE ContentOf(d) = "long"  -> 2
      [] ContentOf(d) = "short" -> 1
      [] OTHER -> 0

\* batch_size of mark_documents_as_indexed.  The source says 100; the model
\* scales it to 2 so that a selection of three rows takes two sub-batches.
batch_size == 2

VARIABLES
    is_indexed,   \* Webpage.is_indexed, per row
    namespaces,   \* Chroma collections that exist
    vstore,       \* entries of the vector store
    pc,           \* per run: position in index_documents_by_collection
    coll,         \* per run: collection_id
    documents,    \* per run: the list get_unindexed_documents returned
    markPos,      \* per run: i of the loop in mark_documents_as_indexed
    stats,        \* per run: the stats dictionary
    endedAt,      \* history: the position at which a run failed or crashed
    upserted,     \* history: the run's pipeline.run returned
    marked,       \* history: the rows whose flag the run committed
    clock,        \* the time, in ticks; it advances when the crawler writes
    last_crawled, \* Webpage.last_crawled, per row: when its content was written
    indexed_at,   \* Webpage.indexed_at, per row; NULL is -1
    now,          \* per run: now of mark_documents_as_indexed
    doc_crawled,  \* per run: "last_crawled" of the rows as the selection read
                  \* them, the content the run's documents are built from
    trigger,      \* per run: the call of start_background_indexing that made it
    log           \* per run: what _run_indexing logged at the end of the call

timeVars == <<clock, last_crawled, indexed_at, now, doc_crawled>>

bgVars == <<trigger, log>>

idxVars == <<is_indexed, namespaces, vstore, pc, coll, documents, markPos,
             stats, endedAt, upserted, marked, timeVars, bgVars>>

VARIABLES
    chatRows,         \* chats table: number of rows per session_id
    chatMessages,     \* chat_messages table: per session_id, rows in creation order
    rpc,              \* per request: position in process_chat
    given,            \* per request: request.session_id
    session_id,       \* per request: local session_id
    is_new_session,   \* per request: local is_new_session
    chat,             \* per request: what get_chat_by_session_id returned
    message_history,  \* per request: local message_history
    new_messages,     \* per request: result.new_messages()
    response,         \* per request: the answer sent
    model_calls       \* per request: number of calls of agent.run_sync so far

chatVars == <<chatRows, chatMessages, rpc, given, session_id, is_new_session,
              chat, message_history, new_messages, response, model_calls>>

VARIABLES
    dpc,          \* per DELETE request: position in delete_chat
    dsession,     \* per DELETE request: the session_id of the path
    dsuccess,     \* per DELETE request: delete_chat_session returned "true" or
                  \* "false", or it "raised"
    dresponse     \* per DELETE request: the status code of the answer

delVars == <<dpc, dsession, dsuccess, dresponse>>

VARIABLES
    fnHistory,    \* argument: message_history / existing_history
    fnNew,        \* argument: new_messages
    fnMax,        \* argument: max_messages
    fnResult,     \* the list returned
    fnCalled      \* the function that was called, "none" before the call

fnVars == <<fnHistory, fnNew, fnMax, fnResult, fnCalled>>

VARIABLES
    chat_history  \* the last answer of get_chat_history

getVars == <<chat_history>>

VARIABLES
    piiText,      \* argument: text
    piiMatches,   \* detect_pii(text)
    piiRedacted,  \* redact_pii(text, matches)
    piiRescan,    \* detect_pii of the redacted text
    piiCalled     \* how far the calls have got, "none" before the first

piiVars == <<piiText, piiMatches, piiRedacted, piiRescan, piiCalled>>

VARIABLES
    questions,    \* FollowUpQuestions.questions
    total_count   \* FollowUpQuestions.total_count

fuqVars == <<questions, total_count>>

\* what an action of the indexing synchronizer leaves alone
outsideIndex == <<chatVars, delVars, fnVars, getVars, piiVars, fuqVars>>

\* what an action of POST /chat/ leaves alone
outsideChat == <<idxVars, delVars, fnVars, getVars, piiVars, fuqVars>>

\* what an action of DELETE /chat/{session_id} leaves alone, the chat tables
\* apart
outsideDelete == <<idxVars, fnVars, getVars, piiVars, fuqVars>>

\* what a call of a history function leaves alone
outsideCall == <<idxVars, chatVars, delVars, getVars, piiVars, fuqVars>>

vars == <<idxVars, chatVars, delVars, fnVars, getVars, piiVars, fuqVars>>

NoStats == [documents_processed |-> 0, documents_indexed |-> 0,
            status |-> "none", note |-> "none"]

\* stats as built at the top of index_documents_by_collection
StartedStats == [documents_processed |-> 0, documents_indexed |-> 0,
                 status |-> "started", note |-> "none"]

Range(s) == {s[i] : i \in DOMAIN s}

Min(a, b) == IF a < b THEN a ELSE b

\* every order in which the rows of S can come back from a SELECT that has
\* no ORDER BY
Orders(S) ==
    {s \in [1..Cardinality(S) -> S] : \A i, j \in DOMAIN s : i # j => s[i] # s[j]}

\* faulty variant: the selection forgets the is_indexed filter
Unindexed_AnyFlag(c) ==
    {d \in Docs : CollectionOf(d) = c /\ ContentOf(d) # "null"}

\* the rows get_unindexed_documents selects
Unindexed(c) ==
    {d \in Docs : /\ CollectionOf(d) = c
                  /\ ~is_indexed[d]
                  /\ ContentOf(d) # "null"}

\* indexed_at of a row that was never marked
NULL == -1

InitIndex ==
    /\ is_indexed = [d \in Docs |-> d \in InitiallyIndexed]
    /\ namespaces = {CollectionOf(d) : d \in InitiallyIndexed}
    /\ vstore = {[ns |-> CollectionOf(d), run |-> 0, doc |-> d, chunk |-> k,
                   last_crawled |-> 0] :
                    d \in InitiallyIndexed, k \in 1..1}
    /\ pc = [r \in Runs |-> "idle"]
    /\ coll = [r \in Runs |-> "c1"]
    /\ documents = [r \in Runs |-> <<>>]
    /\ markPos = [r \in Runs |-> 0]
    /\ stats = [r \in Runs |-> NoStats]
    /\ endedAt = [r \in Runs |-> "none"]
    /\ upserted = [r \in Runs |-> FALSE]
    /\ marked = [r \in Runs |-> {}]
    /\ clock = 0
    /\ last_crawled = [d \in Docs |-> 0]
    /\ indexed_at = [d \in Docs |-> IF d \in InitiallyIndexed THEN 0 ELSE NULL]
    /\ now = [r \in Runs |-> 0]
    /\ doc_crawled = [r \in Runs |-> [d \in Docs |-> 0]]
    /\ trigger = [r \in Runs |-> "none"]
    /\ log = [r \in Runs |-> "none"]


\* document_ids = [doc.get("id") for doc in documents]
document_ids(r) == documents[r]

\* the nodes pipeline.run makes of the run's documents, in list order
RECURSIVE NodesFrom(_, _)
NodesFrom(ids, i) ==
    IF i > Len(ids) THEN <<>>
    ELSE [k \in 1..NumChunks(ids[i]) |-> [doc |-> ids[i], chunk |-> k]]
         \o NodesFrom(ids, i + 1)

NodesOf(r) == NodesFrom(documents[r], 1)

\* The id under which a node is stored.  Document(text=..., metadata=...) is
\* built without an id, so the document and the nodes cut from it get the
\* library's fresh random ids: the key is new in every run.  The record id
\* and the chunk index are metadata of the entry, not its key.
NodeKey(r, n) == r

\* an entry of the store: key, metadata (doc_id, last_crawled) and the chunk
\* whose text was embedded
VectorEntry(r, n) ==
    [ns |-> coll[r], run |-> NodeKey(r, n), doc |-> n.doc, chunk |-> n.chunk,
     last_crawled |-> doc_crawled[r][n.doc]]

\* the entries added by vector_store.add for the first k nodes
Added(r, k) == {VectorEntry(r, NodesOf(r)[i]) : i \in 1..k}

\* the except block of index_documents_by_collection
FailedStats(r) == [stats[r] EXCEPT !.status = "failed", !.note = "error"]

\* faulty variant: the slice stops one id early
batch_ids_Short(r) ==
    {document_ids(r)[j] :
        j \in (markPos[r] + 1)..
              (Min(markPos[r] + batch_size, Len(document_ids(r))) - 1)}

\* faulty variant: a slice starts at the last id of the slice before it
batch_ids_Overlap(r) ==
    {document_ids(r)[j] :
        j \in (IF markPos[r] = 0 THEN 1 ELSE markPos[r])..
              Min(markPos[r] + batch_size, Len(document_ids(r)))}

\* faulty variant: the UPDATE filters on the collection, not on the ids
batch_ids_WholeCollection(r) == {d \in Docs : CollectionOf(d) = coll[r]}

\* batch_ids = document_ids[i:i+batch_size]
batch_ids(r) ==
    {document_ids(r)[j] :
        j \in (markPos[r] + 1)..Min(markPos[r] + batch_size, Len(document_ids(r)))}

\* faulty variant: the flags are written before the pipeline runs
MarkingReached_BeforePipeline(r) == pc[r] \in {"setup", "marking"}

\* mark_documents_as_indexed is called after pipeline.run and
\* VectorStoreIndex(nodes) returned
MarkingReached(r) == pc[r] = "marking"

\* faulty variant: no rollback, the UPDATE of the failed sub-batch stays
FlagsAfterMarkFailure_NoRollback(r) ==
    [d \in Docs |-> is_indexed[d] \/ d \in batch_ids(r)]

\* the flags after an exception in the marking loop: db.rollback() undoes the
\* UPDATE of the current sub-batch, the sub-batches committed before stay
FlagsAfterMarkFailure(r) == is_indexed

\* index_documents_by_collection(c) is called; runs are numbered in the
\* order of their calls
StartRun(r, c) ==
    /\ pc[r] = "idle"
    /\ \A q \in Runs : q < r => pc[q] # "idle"
    /\ pc' = [pc EXCEPT ![r] = "started"]
    /\ coll' = [coll EXCEPT ![r] = c]
    /\ stats' = [stats EXCEPT ![r] = StartedStats]
    /\ UNCHANGED <<is_indexed, namespaces, vstore, documents, markPos,
                   endedAt, upserted, marked>>
    /\ UNCHANGED <<timeVars, bgVars>>
    /\ UNCHANGED outsideIndex

\* faulty variant: the exception is re-raised to the caller after the update
AfterException_Reraise(r) == "raised"

\* where an exception raised in the try block leaves the call: "except
\* Exception" takes it and the block ends with "return stats"
AfterException(r) == "done"

\* The log of a run when its call ends.  In a task made by
\* start_background_indexing the call is awaited by _run_indexing, which
\* goes on without a suspension point: logger.info with result['status']
\* after a return, logger.error in its "except Exception" after a raise.
\* A direct call logs nothing of the kind.
LogAtEnd(r, status) ==
    IF trigger[r] = "none" THEN log ELSE [log EXCEPT ![r] = status]

\* an exception anywhere in the try block: stats failed, returned
Fail(r) ==
    /\ pc' = [pc EXCEPT ![r] = AfterException(r)]
    /\ log' = LogAtEnd(r, IF AfterException(r) = "done" THEN "failed" ELSE "error")
    /\ stats' = [stats EXCEPT ![r] = FailedStats(r)]
    /\ endedAt' = [endedAt EXCEPT ![r] = pc[r]]

\* get_unindexed_documents returns rows
Select(r) ==
    /\ pc[r] = "started"
    /\ Unindexed(coll[r]) # {}
    /\ \E order \in Orders(Unindexed(coll[r])) :
          documents' = [documents EXCEPT ![r] = order]
    /\ doc_crawled' = [doc_crawled EXCEPT ![r] = last_crawled]
    /\ pc' = [pc EXCEPT ![r] = "selected"]
    /\ UNCHANGED <<is_indexed, namespaces, vstore, coll, markPos, stats,
                   endedAt, upserted, marked>>
    /\ UNCHANGED <<clock, last_crawled, indexed_at, now, bgVars>>
    /\ UNCHANGED outsideIndex

\* faulty variant: the empty result carries no message
EmptyStats_NoMessage(r) == [stats[r] EXCEPT !.status = "completed"]

\* stats.update on "if not documents": completed, with the message "No
\* unindexed documents found"
EmptyStats(r) == [stats[r] EXCEPT !.status = "completed", !.note = "message"]

\* get_unindexed_documents returns nothing: "No unindexed documents found"
SelectNone(r) ==
    /\ pc[r] = "started"
    /\ Unindexed(coll[r]) = {}
    /\ pc' = [pc EXCEPT ![r] = "done"]
    /\ stats' = [stats EXCEPT ![r] = EmptyStats(r)]
    /\ UNCHANGED <<is_indexed, namespaces, vstore, coll, documents, markPos,
                   endedAt, upserted, marked>>
    /\ log' = LogAtEnd(r, "completed")
    /\ UNCHANGED <<timeVars, trigger>>
    /\ UNCHANGED outsideIndex

SelectFail(r) ==
    /\ pc[r] = "started"
    /\ Fail(r)
    /\ UNCHANGED <<is_indexed, namespaces, vstore, coll, documents, markPos,
                   upserted, marked>>
    /\ UNCHANGED <<timeVars, trigger>>
    /\ UNCHANGED outsideIndex

\* setup_vector_store, then doc_objects, document_ids and
\* stats["documents_processed"]
SetupVectorStore(r) ==
    /\ pc[r] = "selected"
    /\ namespaces' = namespaces \cup {coll[r]}
    /\ stats' = [stats EXCEPT ![r].documents_processed = Len(document_ids(r))]
    /\ pc' = [pc EXCEPT ![r] = "setup"]
    /\ UNCHANGED <<is_indexed, vstore, coll, documents, markPos, endedAt,
                   upserted, marked>>
    /\ UNCHANGED <<timeVars, bgVars>>
    /\ UNCHANGED outsideIndex

\* setup_vector_store raises, before or after get_or_create_collection
SetupFail(r, created) ==
    /\ pc[r] = "selected"
    /\ namespaces' = IF created THEN namespaces \cup {coll[r]} ELSE namespaces
    /\ Fail(r)
    /\ UNCHANGED <<is_indexed, vstore, coll, documents, markPos, upserted,
                   marked>>
    /\ UNCHANGED <<timeVars, trigger>>
    /\ UNCHANGED outsideIndex

\* nodes = pipeline.run(documents=doc_objects): split, embed, and
\* vector_store.add of all nodes
PipelineRun(r) ==
    /\ pc[r] = "setup"
    /\ vstore' = vstore \cup Added(r, Len(NodesOf(r)))
    /\ upserted' = [upserted EXCEPT ![r] = TRUE]
    /\ pc' = [pc EXCEPT ![r] = "piped"]
    /\ UNCHANGED <<is_indexed, namespaces, coll, documents, markPos, stats,
                   endedAt, marked>>
    /\ UNCHANGED <<timeVars, bgVars>>
    /\ UNCHANGED outsideIndex

\* pipeline.run raises: in the splitter or the embedding (nothing stored), or
\* in vector_store.add, which sends the nodes in one request: the request
\* failed (nothing stored), or it timed out after the store applied it
PipelineFail(r, stored) ==
    /\ pc[r] = "setup"
    /\ vstore' = vstore \cup Added(r, IF stored THEN Len(NodesOf(r)) ELSE 0)
    /\ Fail(r)
    /\ UNCHANGED <<is_indexed, namespaces, coll, documents, markPos, upserted,
                   marked>>
    /\ UNCHANGED <<timeVars, trigger>>
    /\ UNCHANGED outsideIndex

\* index = VectorStoreIndex(nodes): an index in memory, dropped on return
BuildIndex(r) ==
    /\ pc[r] = "piped"
    /\ pc' = [pc EXCEPT ![r] = "marking"]
    /\ markPos' = [markPos EXCEPT ![r] = 0]
    /\ UNCHANGED <<is_indexed, namespaces, vstore, coll, documents, stats,
                   endedAt, upserted, marked>>
    /\ now' = [now EXCEPT ![r] = clock]
    /\ UNCHANGED <<clock, last_crawled, indexed_at, doc_crawled>>
    /\ UNCHANGED bgVars
    /\ UNCHANGED outsideIndex

BuildIndexFail(r) ==
    /\ pc[r] = "piped"
    /\ Fail(r)
    /\ UNCHANGED <<is_indexed, namespaces, vstore, coll, documents, markPos,
                   upserted, marked>>
    /\ UNCHANGED <<timeVars, trigger>>
    /\ UNCHANGED outsideIndex

\* one turn of the loop of mark_documents_as_indexed: UPDATE ... WHERE id IN
\* batch_ids, then commit.  The UPDATE is invisible to other sessions until
\* the commit, so the two are one step.
MarkBatch(r) ==
    /\ MarkingReached(r)
    /\ markPos[r] < Len(document_ids(r))
    /\ is_indexed' = [d \in Docs |-> is_indexed[d] \/ d \in batch_ids(r)]
    /\ marked' = [marked EXCEPT ![r] = @ \cup batch_ids(r)]
    /\ markPos' = [markPos EXCEPT ![r] = @ + batch_size]
    /\ UNCHANGED <<namespaces, vstore, pc, coll, documents, stats, endedAt,
                   upserted>>
    /\ indexed_at' = [d \in Docs |->
                        IF d \in batch_ids(r) THEN now[r] ELSE indexed_at[d]]
    /\ UNCHANGED <<clock, last_crawled, now, doc_crawled>>
    /\ UNCHANGED bgVars
    /\ UNCHANGED outsideIndex

\* execute or commit of the current sub-batch raises: rollback, re-raise,
\* and the caller's except block returns the failed stats
MarkFail(r) ==
    /\ pc[r] = "marking"
    /\ markPos[r] < Len(document_ids(r))
    /\ is_indexed' = FlagsAfterMarkFailure(r)
    /\ Fail(r)
    /\ UNCHANGED <<namespaces, vstore, coll, documents, markPos, upserted,
                   marked>>
    /\ UNCHANGED <<timeVars, trigger>>
    /\ UNCHANGED outsideIndex

\* the loop is over: documents_indexed, status completed, return
FinishRun(r) ==
    /\ pc[r] = "marking"
    /\ markPos[r] >= Len(document_ids(r))
    /\ stats' = [stats EXCEPT ![r] =
                    [@ EXCEPT !.documents_indexed = Len(document_ids(r)),
                              !.status = "completed"]]
    /\ pc' = [pc EXCEPT ![r] = "done"]
    /\ UNCHANGED <<is_indexed, namespaces, vstore, coll, documents, markPos,
                   endedAt, upserted, marked>>
    /\ log' = LogAtEnd(r, "completed")
    /\ UNCHANGED <<timeVars, trigger>>
    /\ UNCHANGED outsideIndex

Active == {"started", "selected", "setup", "piped", "marking"}

\* the process dies or the task is cancelled: nothing is returned, the
\* run's locals are gone, and an open transaction is rolled back by the
\* database
Crash(r) ==
    /\ pc[r] \in Active
    /\ pc' = [pc EXCEPT ![r] = "crashed"]
    /\ endedAt' = [endedAt EXCEPT ![r] = pc[r]]
    /\ documents' = [documents EXCEPT ![r] = <<>>]
    /\ markPos' = [markPos EXCEPT ![r] = 0]
    /\ stats' = [stats EXCEPT ![r] = NoStats]
    /\ doc_crawled' = [doc_crawled EXCEPT ![r] = [d \in Docs |-> 0]]
    /\ UNCHANGED <<is_indexed, namespaces, vstore, coll, upserted, marked>>
    /\ UNCHANGED <<clock, last_crawled, indexed_at, now, bgVars>>
    /\ UNCHANGED outsideIndex

\* a step of a call of index_documents_by_collection that is under way
RunStep(r) ==
    \/ Select(r)
    \/ SelectNone(r)
    \/ SelectFail(r)
    \/ SetupVectorStore(r)
    \/ \E created \in BOOLEAN : SetupFail(r, created)
    \/ PipelineRun(r)
    \/ \E stored \in BOOLEAN : PipelineFail(r, stored)
    \/ BuildIndex(r)
    \/ BuildIndexFail(r)
    \/ MarkBatch(r)
    \/ MarkFail(r)
    \/ FinishRun(r)
    \/ Crash(r)

NextIndex ==
    \E r \in Runs :
        \/ \E c \in Collections : StartRun(r, c)
        \/ RunStep(r)

(***************************************************************************)
(* start_background_indexing: the run as a task of the event loop          *)
(***************************************************************************)
\* faulty variant: the trigger awaits the run instead of scheduling it
TriggerResult_Awaits(r) == "waiting"

\* asyncio.create_task(_run_indexing()) returns at once and the function
\* ends: the trigger has its answer when the task is scheduled
TriggerResult(r) == "returned"

\* start_background_indexing(c): the task is created, nothing of it has run
Schedule(r, c) ==
    /\ pc[r] = "idle"
    /\ \A q \in Runs : q < r => pc[q] # "idle"
    /\ pc' = [pc EXCEPT ![r] = "scheduled"]
    /\ coll' = [coll EXCEPT ![r] = c]
    /\ trigger' = [trigger EXCEPT ![r] = TriggerResult(r)]
    /\ UNCHANGED <<is_indexed, namespaces, vstore, documents, markPos, stats,
                   endedAt, upserted, marked, timeVars, log>>
    /\ UNCHANGED outsideIndex

\* the event loop starts _run_indexing: it calls
\* index_documents_by_collection
TaskStart(r) ==
    /\ pc[r] = "scheduled"
    /\ pc' = [pc EXCEPT ![r] = "started"]
    /\ stats' = [stats EXCEPT ![r] = StartedStats]
    /\ UNCHANGED <<is_indexed, namespaces, vstore, coll, documents, markPos,
                   endedAt, upserted, marked, timeVars, bgVars>>
    /\ UNCHANGED outsideIndex

\* the event loop ends before the task has run
TaskDropped(r) ==
    /\ pc[r] = "scheduled"
    /\ pc' = [pc EXCEPT ![r] = "crashed"]
    /\ endedAt' = [endedAt EXCEPT ![r] = "scheduled"]
    /\ UNCHANGED <<is_indexed, namespaces, vstore, coll, documents, markPos,
                   stats, upserted, marked, timeVars, bgVars>>
    /\ UNCHANGED outsideIndex

NextBackground ==
    \E r \in Runs :
        \/ \E c \in Collections : Schedule(r, c)
        \/ TaskStart(r)
        \/ RunStep(r)
        \/ TaskDropped(r)

\* The crawler writes row d again (ingestion, outside the sources at hand):
\* new content at a new time, and the row is eligible for indexing again.
Ingest(d) ==
    /\ clock < MaxCrawls
    /\ clock' = clock + 1
    /\ last_crawled' = [last_crawled EXCEPT ![d] = clock + 1]
    /\ is_indexed' = [is_indexed EXCEPT ![d] = FALSE]
    /\ UNCHANGED <<namespaces, vstore, pc, coll, documents, markPos, stats,
                   endedAt, upserted, marked, indexed_at, now, doc_crawled>>
    /\ UNCHANGED bgVars
    /\ UNCHANGED outsideIndex

NextIngest == \E d \in Docs : Ingest(d)

(***************************************************************************)
(* The chat endpoint.  ChatPersistenceService (app/utils/chat_persistence)  *)
(* is not part of the sources at hand; its operations are modelled from    *)
(* their contract.                                                         *)
(***************************************************************************)
Reqs == 1..MaxReqs

\* the DELETE /chat/{session_id} requests
Dels == 1..MaxDels

\* ids a client can invent (the load test sends uuid4 values of its own)
ClientIds == {<<"client", 1>>}

\* the id create_chat_session generates in request q: a fresh uuid
GeneratedId(q) == <<"gen", q>>

SessionIds == ClientIds \cup {GeneratedId(q) : q \in Reqs}

NoId == <<"none", 0>>

\* message_history = None, or a list
None == [isNone |-> TRUE, list |-> <<>>]
List(l) == [isNone |-> FALSE, list |-> l]

\* what an answer of process_chat carries, besides its status code
OkBody == {"answer", "trace_id"}
\* HTTPException(500, "Failed to save chat messages")
SaveFailedBody == {"generic message"}
\* HTTPException(500, f"Internal server error: {str(e)}")
ErrorBody == {"generic message", "exception text"}

NoResponse == [code |-> 0, session_id |-> NoId, body |-> {}]

\* before the first answer of get_chat_history
NoHistoryAnswer ==
    [chat |-> "unset", code |-> 0, session_id |-> NoId, messages |-> <<>>,
     num_messages |-> 0]

\* len(message_history) above which process_chat truncates, and the
\* max_messages it passes
HistoryLimit == 20

InitChat ==
    /\ chatRows = [s \in SessionIds |-> 0]
    /\ chatMessages = [s \in SessionIds |-> <<>>]
    /\ rpc = [q \in Reqs |-> "idle"]
    /\ given = [q \in Reqs |-> NoId]
    /\ session_id = [q \in Reqs |-> NoId]
    /\ is_new_session = [q \in Reqs |-> FALSE]
    /\ chat = [q \in Reqs |-> "unset"]
    /\ message_history = [q \in Reqs |-> None]
    /\ new_messages = [q \in Reqs |-> <<>>]
    /\ response = [q \in Reqs |-> NoResponse]
    /\ model_calls = [q \in Reqs |-> 0]

\* no DELETE request yet
InitDelete ==
    /\ dpc = [x \in Dels |-> "idle"]
    /\ dsession = [x \in Dels |-> NoId]
    /\ dsuccess = [x \in Dels |-> "none"]
    /\ dresponse = [x \in Dels |-> 0]

\* no call of the history functions
InitNoCall ==
    /\ fnHistory = <<>>
    /\ fnNew = <<>>
    /\ fnMax = 0
    /\ fnResult = <<>>
    /\ fnCalled = "none"

\* no GET request yet
InitGet == chat_history = NoHistoryAnswer

\* FollowUpQuestions(): the container with the defaults
InitNoFollowUp == questions = <<>> /\ total_count = 0

\* no call of the PII functions
InitNoPii ==
    /\ piiText = <<>>
    /\ piiMatches = <<>>
    /\ piiRedacted = <<>>
    /\ piiRescan = <<>>
    /\ piiCalled = "none"

Init == InitIndex /\ InitChat /\ InitDelete /\ InitNoCall /\ InitGet /\ InitNoFollowUp /\ InitNoPii

\* the k-th message request q's agent run produces; a run starts with the
\* ModelRequest that carries the user's prompt, ModelResponses follow
Message(q, k) == [id |-> <<q, k>>, kind |-> IF k = 1 THEN "request" ELSE "response"]

\* other_messages[-max_messages:]
LastN(l, n) ==
    IF n = 0 THEN l
    ELSE SubSeq(l, IF Len(l) > n THEN Len(l) - n + 1 ELSE 1, Len(l))

IsSystem(m) == m.kind = "system"
IsOther(m) == m.kind # "system"

\* faulty variant: no early return, the history is always split and rebuilt
truncate_message_history_Rebuilt(history, max_messages) ==
    SelectSeq(history, IsSystem)
    \o LastN(SelectSeq(history, IsOther), max_messages)

\* faulty variant: a call drops the oldest message only
truncate_message_history_DropOne(history, max_messages) ==
    IF Len(history) <= max_messages THEN history ELSE Tail(history)

\* faulty variant: the oldest messages are kept
truncate_message_history_Oldest(history, max_messages) ==
    IF Len(history) <= max_messages THEN history
    ELSE SelectSeq(history, IsSystem)
         \o SubSeq(SelectSeq(history, IsOther), 1, max_messages)

truncate_message_history(history, max_messages) ==
    IF Len(history) <= max_messages THEN history
    ELSE SelectSeq(history, IsSystem)
         \o LastN(SelectSeq(history, IsOther), max_messages)

\* faulty variant: the row is inserted without looking for an existing one
RowsAfterCreateWithId_NoCheck(s) == [chatRows EXCEPT ![s] = @ + 1]

\* ChatPersistenceService.create_chat_session_with_id: persists a session
\* under the given id if one does not already exist
RowsAfterCreateWithId(s) ==
    IF chatRows[s] = 0 THEN [chatRows EXCEPT ![s] = 1] ELSE chatRows

\* faulty variant: every save numbers its messages from 0
NextOrdinal_Zero(s) == 0

\* ChatPersistenceService.save_messages: next ordinal = max existing + 1
NextOrdinal(s) ==
    IF chatMessages[s] = <<>> THEN 0
    ELSE chatMessages[s][Len(chatMessages[s])].message_idx + 1

\* the parsed part of a content string that is not a JSON document
NoMsg == [id |-> <<0, 0>>, kind |-> "none"]

\* A content string, by what json.loads makes of it: its form ("json" for a
\* JSON document, "text" for plain text, "cut" for a document cut short) and,
\* for a JSON document, the value it parses to.
\* ChatPersistenceService.save_messages stores a message serialized.
Dump(msg) == [form |-> "json", parsed |-> msg]

\* ChatPersistenceService.save_messages: the rows appended for messages ms
SavedRows(s, ms) ==
    [i \in 1..Len(ms) |-> [message_idx |-> NextOrdinal(s) + i - 1, msg |-> ms[i],
                           content |-> Dump(ms[i])]]

\* ChatPersistenceService.load_messages: ordered by ordinal, ascending
LoadedMessages(s) ==
    [i \in 1..Len(chatMessages[s]) |-> chatMessages[s][i].msg]

\* faulty variant: only None starts a new conversation
NoHistory_NoneOnly(q) == message_history[q].isNone

\* "if not message_history": None and the empty list start a new conversation
NoHistory(q) == message_history[q].isNone \/ message_history[q].list = <<>>

\* the history handed to generate_agent
AgentHistory(q) ==
    IF NoHistory(q) THEN <<>>
    ELSE IF Len(message_history[q].list) > HistoryLimit
         THEN truncate_message_history(message_history[q].list, HistoryLimit)
         ELSE message_history[q].list

\* generate_agent(message_history): Agent(instructions=SYSTEM_PROMPT if
\* message_history is None else None, message_history=message_history)
generate_agent(mh) ==
    [instructions |-> IF mh.isNone THEN "SYSTEM_PROMPT" ELSE "None",
     message_history |-> mh]

\* the agent process_chat builds: generate_agent() or
\* generate_agent(message_history=message_history)
agent(q) ==
    IF NoHistory(q) THEN generate_agent(None)
    ELSE generate_agent(List(AgentHistory(q)))

\* result.all_messages(): the history the agent ran with, then the new ones
all_messages(q) == AgentHistory(q) \o new_messages[q]

\* faulty variant: the full transcript is saved for a continuing session too
MessagesToSave_All(q) == all_messages(q)

\* the list process_chat passes to save_messages
MessagesToSave(q) ==
    IF is_new_session[q] THEN all_messages(q) ELSE new_messages[q]

\* faulty variant: an unknown session_id is answered 404
OnMissingChat_NotFound(q) == "notfound"

\* what process_chat does when the given session_id is not in the store:
\* "create it instead of failing"
OnMissingChat(q) == "create"

Respond(q, code, body) ==
    /\ rpc' = [rpc EXCEPT ![q] = "done"]
    /\ response' = [response EXCEPT ![q] =
                       [code |-> code, session_id |-> session_id[q], body |-> body]]

\* POST /chat/ without session_id: create_chat_session
NewSession(q) ==
    /\ rpc[q] = "idle"
    /\ \A p \in Reqs : p < q => rpc[p] # "idle"
    /\ is_new_session' = [is_new_session EXCEPT ![q] = TRUE]
    /\ session_id' = [session_id EXCEPT ![q] = GeneratedId(q)]
    /\ chatRows' = [chatRows EXCEPT ![GeneratedId(q)] = 1]
    /\ rpc' = [rpc EXCEPT ![q] = "ready"]
    /\ UNCHANGED <<chatMessages, given, chat, message_history, new_messages,
                   response>>
    /\ UNCHANGED model_calls
    /\ UNCHANGED outsideChat

\* POST /chat/ with session_id s: get_chat_by_session_id
GetChat(q, s) ==
    /\ rpc[q] = "idle"
    /\ \A p \in Reqs : p < q => rpc[p] # "idle"
    /\ s \in ClientIds \/ chatRows[s] > 0
    /\ given' = [given EXCEPT ![q] = s]
    /\ session_id' = [session_id EXCEPT ![q] = s]
    /\ chat' = [chat EXCEPT ![q] = IF chatRows[s] > 0 THEN "row" ELSE "none"]
    /\ rpc' = [rpc EXCEPT ![q] = "looked"]
    /\ UNCHANGED <<chatRows, chatMessages, is_new_session, message_history,
                   new_messages, response>>
    /\ UNCHANGED model_calls
    /\ UNCHANGED outsideChat

\* "if not chat": create_chat_session_with_id, message_history = None
CreateWithId(q) ==
    /\ rpc[q] = "looked"
    /\ chat[q] = "none"
    /\ IF OnMissingChat(q) = "create"
       THEN /\ chatRows' = RowsAfterCreateWithId(session_id[q])
            /\ rpc' = [rpc EXCEPT ![q] = "ready"]
            /\ UNCHANGED response
       ELSE /\ Respond(q, 404, {"generic message"})
            /\ UNCHANGED chatRows
    /\ UNCHANGED <<chatMessages, given, session_id, is_new_session, chat,
                   message_history, new_messages>>
    /\ UNCHANGED model_calls
    /\ UNCHANGED outsideChat

\* else: load_messages
LoadMessages(q) ==
    /\ rpc[q] = "looked"
    /\ chat[q] = "row"
    /\ message_history' =
          [message_history EXCEPT ![q] = List(LoadedMessages(session_id[q]))]
    /\ rpc' = [rpc EXCEPT ![q] = "ready"]
    /\ UNCHANGED <<chatRows, chatMessages, given, session_id, is_new_session,
                   chat, new_messages, response>>
    /\ UNCHANGED model_calls
    /\ UNCHANGED outsideChat

\* agent.run_sync(request.message) returns, with n new messages
RunAgent(q, n) ==
    /\ rpc[q] = "ready"
    /\ model_calls' = [model_calls EXCEPT ![q] = @ + 1]
    /\ new_messages' = [new_messages EXCEPT ![q] = [k \in 1..n |-> Message(q, k)]]
    /\ rpc' = [rpc EXCEPT ![q] = "ran"]
    /\ UNCHANGED <<chatRows, chatMessages, given, session_id, is_new_session,
                   chat, message_history, response>>
    /\ UNCHANGED outsideChat

\* faulty variant: the call is tried again after a failure
AfterAgentFailure_Retry(q) == "retry"

\* what process_chat does when generate_agent or agent.run_sync raised: the
\* call is not in a loop, "except Exception" answers
AfterAgentFailure(q) == "answer"

\* agent.run_sync raises or times out: HTTPException 500 with the
\* exception's text; the request's history is gone with it.  (A failure of
\* generate_agent, before the call, takes the same path; it is counted as a
\* call, so model_calls is an upper bound.)
AgentFail(q) ==
    /\ rpc[q] = "ready"
    /\ model_calls' = [model_calls EXCEPT ![q] = @ + 1]
    /\ IF AfterAgentFailure(q) = "answer"
       THEN /\ Respond(q, 500, ErrorBody)
            /\ message_history' = [message_history EXCEPT ![q] = None]
       ELSE UNCHANGED <<rpc, response, message_history>>
    /\ UNCHANGED <<chatRows, chatMessages, given, session_id, is_new_session,
                   chat, new_messages>>
    /\ UNCHANGED outsideChat

\* save_messages returns True: the ChatResponse is returned.  Rows can only
\* be added to a session that exists.
SaveMessages(q) ==
    /\ rpc[q] = "ran"
    /\ chatRows[session_id[q]] > 0
    /\ chatMessages' =
          [chatMessages EXCEPT ![session_id[q]] =
              @ \o SavedRows(session_id[q], MessagesToSave(q))]
    /\ Respond(q, 200, OkBody)
    /\ UNCHANGED <<chatRows, given, session_id, is_new_session, chat,
                   message_history, new_messages>>
    /\ UNCHANGED model_calls
    /\ UNCHANGED outsideChat

\* save_messages returns False: "Failed to save chat messages", 500; the
\* request's history and result are gone with it
SaveFail(q) ==
    /\ rpc[q] = "ran"
    /\ Respond(q, 500, SaveFailedBody)
    /\ message_history' = [message_history EXCEPT ![q] = None]
    /\ new_messages' = [new_messages EXCEPT ![q] = <<>>]
    /\ UNCHANGED <<chatRows, chatMessages, given, session_id, is_new_session,
                   chat>>
    /\ UNCHANGED model_calls
    /\ UNCHANGED outsideChat

\* the steps of request q
ChatStep(q) ==
    \/ NewSession(q)
    \/ \E s \in SessionIds : GetChat(q, s)
    \/ CreateWithId(q)
    \/ LoadMessages(q)
    \/ \E n \in 1..MaxNew : RunAgent(q, n)
    \/ AgentFail(q)
    \/ SaveMessages(q)
    \/ SaveFail(q)

NextChat == \E q \in Reqs : ChatStep(q)

(***************************************************************************)
(* GET /chat/{session_id}                                                  *)
(***************************************************************************)
\* json.loads(msg.content) returns, or raises json.JSONDecodeError
Parses(c) == c.form = "json"
JsonLoads(c) == c.parsed

\* faulty variant: no fallback, the malformed content is dropped
ReturnedContent_NoFallback(c) == JsonLoads(c)

\* try: content = json.loads(msg.content)
\* except json.JSONDecodeError: content = {"text": msg.content}
ReturnedContent(c) == IF Parses(c) THEN JsonLoads(c) ELSE [text |-> c]

\* faulty variant: only the newest row is returned
HistoryMessages_NewestOnly(s) ==
    LastN([i \in 1..Len(chatMessages[s]) |->
              [message_idx |-> chatMessages[s][i].message_idx,
               content |-> ReturnedContent(chatMessages[s][i].content)]], 1)

\* the loop over chat.messages: one entry per row, in the rows' order
HistoryMessages(s) ==
    [i \in 1..Len(chatMessages[s]) |->
        [message_idx |-> chatMessages[s][i].message_idx,
         content |-> ReturnedContent(chatMessages[s][i].content)]]

\* faulty variant: the HTTPException is caught by "except Exception"
StatusReraised_Wrapped(code) == 500

\* "except HTTPException: raise": the status raised inside the try block is
\* the status the client gets
StatusReraised(code) == code

\* get_chat_history with get_chat_by_session_id returning: 404 if there is no
\* such chat, else the ChatHistoryResponse
GetHistory(s) ==
    /\ s \in ClientIds \/ chatRows[s] > 0
    /\ chat_history' =
          IF chatRows[s] = 0
          THEN [chat |-> "none", code |-> StatusReraised(404), session_id |-> s,
                messages |-> <<>>, num_messages |-> 0]
          ELSE [chat |-> "row", code |-> 200, session_id |-> s,
                messages |-> HistoryMessages(s),
                num_messages |-> Len(HistoryMessages(s))]
    /\ UNCHANGED <<idxVars, chatVars, delVars, fnVars, piiVars, fuqVars>>

\* get_chat_history with the lookup raising: "except Exception", 500
GetHistoryFail(s) ==
    /\ s \in ClientIds \/ chatRows[s] > 0
    /\ chat_history' = [chat |-> "raised", code |-> 500, session_id |-> s,
                        messages |-> <<>>, num_messages |-> 0]
    /\ UNCHANGED <<idxVars, chatVars, delVars, fnVars, piiVars, fuqVars>>

NextGet == \E s \in SessionIds : GetHistory(s) \/ GetHistoryFail(s)

\* the requests that run beside the GET requests
Turns == 1..MaxTurns

NextTurns == \E q \in Turns : ChatStep(q)

(***************************************************************************)
(* DELETE /chat/{session_id}                                               *)
(***************************************************************************)
\* ChatPersistenceService.delete_chat_session: the session and its messages
\* go together
RowsAfterDelete(s) == [chatRows EXCEPT ![s] = 0]
MessagesAfterDelete(s) == [chatMessages EXCEPT ![s] = <<>>]

\* The status a client gets for an exception raised inside the try block of
\* delete_chat.  The only handler is "except Exception", which raises
\* HTTPException(500) in place of whatever it caught; the HTTPException(404)
\* of "if not success" is raised inside the try block and is an Exception.
StatusOfRaised(code) == 500

\* delete_chat with delete_chat_session returning True or False
DeleteChat(x, s) ==
    /\ dpc[x] = "idle"
    /\ \A y \in Dels : y < x => dpc[y] # "idle"
    /\ dsession' = [dsession EXCEPT ![x] = s]
    /\ dsuccess' = [dsuccess EXCEPT ![x] = IF chatRows[s] > 0 THEN "true" ELSE "false"]
    /\ chatRows' = RowsAfterDelete(s)
    /\ chatMessages' = MessagesAfterDelete(s)
    /\ dresponse' = [dresponse EXCEPT ![x] =
                        IF chatRows[s] > 0 THEN 200 ELSE StatusOfRaised(404)]
    /\ dpc' = [dpc EXCEPT ![x] = "done"]
    /\ UNCHANGED <<rpc, given, session_id, is_new_session, chat,
                   message_history, new_messages, response, model_calls>>
    /\ UNCHANGED outsideDelete

\* delete_chat with delete_chat_session raising (the database fails): the
\* transaction leaves nothing behind
DeleteChatFail(x, s) ==
    /\ dpc[x] = "idle"
    /\ \A y \in Dels : y < x => dpc[y] # "idle"
    /\ dsession' = [dsession EXCEPT ![x] = s]
    /\ dsuccess' = [dsuccess EXCEPT ![x] = "raised"]
    /\ dresponse' = [dresponse EXCEPT ![x] = StatusOfRaised(0)]
    /\ dpc' = [dpc EXCEPT ![x] = "done"]
    /\ UNCHANGED chatVars
    /\ UNCHANGED outsideDelete

NextDelete ==
    \E x \in Dels : \E s \in SessionIds :
        \/ DeleteChat(x, s)
        \/ DeleteChatFail(x, s)

Next == NextIndex \/ NextChat

\* the indexing synchronizer alone
SpecIndex == Init /\ [][NextIndex]_vars

\* the chat endpoint alone
SpecChat == Init /\ [][NextChat]_vars

\* both
Spec == Init /\ [][Next]_vars

(***************************************************************************)
(* The history functions of app/core/orchestrator.py, called on arguments  *)
(* drawn from bounded sets                                                 *)
(***************************************************************************)
\* msg.kind
Kinds == {"system", "request", "response"}

\* the lists of at most n elements of S
ListsOf(S, n) == UNION {[1..k -> S] : k \in 0..n}

\* histories for truncate_message_history: every message is a different
\* object (its id is its position), of any kind
Histories ==
    {[i \in DOMAIN ks |-> [id |-> i, kind |-> ks[i]]] :
        ks \in ListsOf(Kinds, MaxHistory)}

\* messages for combine_message_histories: with an id attribute, or without
\* one (pydantic_ai's ModelRequest and ModelResponse have none); two
\* messages without id and of the same kind have identical content
Messages ==
    {[id |-> i, kind |-> k] : i \in 1..MaxId, k \in {"request", "response"}}
    \cup {[kind |-> k] : k \in {"request", "response"}}

\* hasattr(msg, 'id')
HasId(msg) == "id" \in DOMAIN msg

\* existing_ids after the first loop
existing_ids(existing_history) ==
    {existing_history[i].id :
        i \in {j \in DOMAIN existing_history : HasId(existing_history[j])}}

\* faulty variant: a message is appended only if no equal message is in
\* the existing history
Appended_UnlessEqual(msg, existing_history) ==
    \A i \in DOMAIN existing_history : existing_history[i] # msg

\* faulty variant: a message without id is skipped
Appended_OnlyWithId(msg, existing_history) ==
    HasId(msg) /\ msg.id \notin existing_ids(existing_history)

\* "if not hasattr(msg, 'id') or msg.id not in existing_ids"
Appended(msg, existing_history) ==
    ~HasId(msg) \/ msg.id \notin existing_ids(existing_history)

\* the second loop, from new_messages[i] on
RECURSIVE AppendFrom(_, _, _, _)
AppendFrom(combined, existing_history, new_msgs, i) ==
    IF i > Len(new_msgs) THEN combined
    ELSE AppendFrom(IF Appended(new_msgs[i], existing_history)
                    THEN Append(combined, new_msgs[i])
                    ELSE combined,
                    existing_history, new_msgs, i + 1)

combine_message_histories(existing_history, new_msgs) ==
    AppendFrom(existing_history, existing_history, new_msgs, 1)

InitTruncate ==
    /\ InitIndex /\ InitChat /\ InitDelete /\ InitGet /\ InitNoFollowUp /\ InitNoPii
    /\ fnHistory \in Histories
    /\ fnMax \in 0..MaxMessages
    /\ fnNew = <<>>
    /\ fnResult = <<>>
    /\ fnCalled = "none"

InitCombine ==
    /\ InitIndex /\ InitChat /\ InitDelete /\ InitGet /\ InitNoFollowUp /\ InitNoPii
    /\ fnHistory \in ListsOf(Messages, MaxLen)
    /\ fnNew \in ListsOf(Messages, MaxLen)
    /\ fnMax = 0
    /\ fnResult = <<>>
    /\ fnCalled = "none"

\* The caller's message_history after the call: the function takes its
\* length, reads it in two list comprehensions and slices a new list; it
\* assigns to no element and calls no method that changes the list.
HistoryAfterCall(history, result) == history

\* result = truncate_message_history(message_history, max_messages)
CallTruncate ==
    /\ fnCalled = "none"
    /\ fnResult' = truncate_message_history(fnHistory, fnMax)
    /\ fnHistory' = HistoryAfterCall(fnHistory, fnResult')
    /\ fnCalled' = "truncate"
    /\ UNCHANGED <<fnNew, fnMax>>
    /\ UNCHANGED outsideCall

\* again = truncate_message_history(result, max_messages)
CallTruncateAgain ==
    /\ fnCalled = "truncate"
    /\ fnResult' = truncate_message_history(fnResult, fnMax)
    /\ fnHistory' = HistoryAfterCall(fnHistory, fnResult')
    /\ fnCalled' = "truncate again"
    /\ UNCHANGED <<fnNew, fnMax>>
    /\ UNCHANGED outsideCall

\* The caller's existing_history after the call: "combined =
\* list(existing_history)" is a copy, so the appends do not reach it.
ExistingAfterCall(existing_history, combined) == existing_history

\* result = combine_message_histories(existing_history, new_messages)
CallCombine ==
    /\ fnCalled = "none"
    /\ fnResult' = combine_message_histories(fnHistory, fnNew)
    /\ fnHistory' = ExistingAfterCall(fnHistory, fnResult')
    /\ fnCalled' = "combine"
    /\ UNCHANGED <<fnNew, fnMax>>
    /\ UNCHANGED outsideCall

\* truncate_message_history on every history and limit within the bounds
SpecTruncate == InitTruncate /\ [][CallTruncate \/ CallTruncateAgain]_vars

\* combine_message_histories on every pair of lists within the bounds
SpecCombine == InitCombine /\ [][CallCombine]_vars

\* what a content column can hold
Contents ==
    {Dump(Message(1, k)) : k \in 1..2}
    \cup {[form |-> f, parsed |-> NoMsg] : f \in {"text", "cut"}}

\* one session with up to MaxRows rows, ordinals from 0
InitHistory ==
    /\ InitIndex /\ InitDelete /\ InitNoCall /\ InitGet /\ InitNoFollowUp /\ InitNoPii
    /\ \E n \in 0..MaxRows : \E cs \in [1..n -> Contents] :
          /\ chatRows = [s \in SessionIds |-> IF s = GeneratedId(1) THEN 1 ELSE 0]
          /\ chatMessages =
                [s \in SessionIds |->
                    IF s = GeneratedId(1)
                    THEN [i \in 1..n |-> [message_idx |-> i - 1,
                                          msg |-> cs[i].parsed,
                                          content |-> cs[i]]]
                    ELSE <<>>]
    /\ rpc = [q \in Reqs |-> "idle"]
    /\ given = [q \in Reqs |-> NoId]
    /\ session_id = [q \in Reqs |-> NoId]
    /\ is_new_session = [q \in Reqs |-> FALSE]
    /\ chat = [q \in Reqs |-> "unset"]
    /\ message_history = [q \in Reqs |-> None]
    /\ new_messages = [q \in Reqs |-> <<>>]
    /\ response = [q \in Reqs |-> NoResponse]
    /\ model_calls = [q \in Reqs |-> 0]

\* chat turns and history reads
SpecGet == Init /\ [][NextTurns \/ NextGet]_vars

\* history reads of a session whose rows were written by this or an earlier
\* version of the service
SpecHistory == InitHistory /\ [][NextGet]_vars

\* the chat endpoint with sessions being deleted
SpecDelete == Init /\ [][NextChat \/ NextDelete]_vars

\* the runs as background tasks
SpecBackground == Init /\ [][NextBackground]_vars

\* the indexing synchronizer while the crawler writes rows
SpecIngest == Init /\ [][NextIndex \/ NextIngest]_vars

(***************************************************************************)
(* Properties of the indexing synchronizer                                 *)
(***************************************************************************)
\* entries of the store for chunk k of row d
EntriesOf(d, k) ==
    {e \in vstore : e.ns = CollectionOf(d) /\ e.doc = d /\ e.chunk = k}

\* every chunk of row d has an entry in the store
Covered(d) == \A k \in 1..NumChunks(d) : EntriesOf(d, k) # {}

Returned(r, status) == pc[r] = "done" /\ stats[r].status = status

\* the rows of a run's list from position i on
RestFrom(r, i) == {documents[r][j] : j \in (i + 1)..Len(documents[r])}

\* C1: a row has is_indexed = true only if a vector upsert covering its
\* chunks completed before the flag was set (by a run whose pipeline.run
\* returned), and a run that failed or crashed before its pipeline.run
\* returned has committed no flag at all.
C1_IndexedOnlyAfterUpsert ==
    /\ \A d \in Docs :
          is_indexed[d] =>
             /\ Covered(d)
             /\ \/ d \in InitiallyIndexed
                \/ \E r \in Runs : upserted[r] /\ d \in marked[r]
    /\ \A r \in Runs : ~upserted[r] => marked[r] = {}

\* C1 witness: the pipeline of one run failed after another run had indexed
\* rows of the same collection
C1_Witness ==
    \E r, q \in Runs :
        /\ Returned(r, "failed") /\ endedAt[r] = "setup"
        /\ documents[r] # <<>>
        /\ coll[q] = coll[r] /\ marked[q] # {}

\* C2: two runs on one collection with overlapping selections end in the
\* state of a single run over those rows: the flags set and, in the vector
\* store, one entry per chunk of each row.
C2_ConcurrentRunsConverge ==
    \A r, q \in Runs :
        ( /\ r # q
          /\ Returned(r, "completed") /\ Returned(q, "completed")
          /\ coll[r] = coll[q] )
        => \A d \in Range(documents[r]) \cap Range(documents[q]) :
              /\ is_indexed[d]
              /\ \A k \in 1..NumChunks(d) : Cardinality(EntriesOf(d, k)) = 1

\* C3 (state): after a failure in sub-batch j of the marking loop, the rows of
\* the sub-batches before j are committed as indexed, and a row of sub-batch
\* j or later is indexed only if another run committed it.
C3_MarkFailureState ==
    \A r \in Runs :
        (pc[r] = "done" /\ endedAt[r] = "marking") =>
            /\ stats[r].status = "failed"
            /\ marked[r] = {documents[r][j] : j \in 1..markPos[r]}
            /\ \A d \in marked[r] : is_indexed[d]
            /\ \A d \in RestFrom(r, markPos[r]) :
                  is_indexed[d] => \E q \in Runs : q # r /\ d \in marked[q]

\* C3 (step): a run that selects after such a failure selects exactly the
\* rows of the collection that are still unindexed: none of the committed
\* rows of the failed run, and every row of its failed and later sub-batches
\* that nobody indexed meanwhile.
C3_ReselectStep ==
    \A r, q \in Runs :
        ( /\ pc[r] = "done" /\ endedAt[r] = "marking"
          /\ coll[q] = coll[r]
          /\ pc[q] = "started" /\ pc'[q] = "selected" )
        => /\ Range(documents'[q]) =
                {d \in Docs : /\ CollectionOf(d) = coll[q]
                              /\ ContentOf(d) # "null"
                              /\ ~is_indexed[d]}
           /\ Range(documents'[q]) \cap marked[r] = {}
           /\ {d \in RestFrom(r, markPos[r]) : ~is_indexed[d]}
                 \subseteq Range(documents'[q])

\* C3: both parts
C3_MarkFailureRetry == []C3_MarkFailureState /\ [][C3_ReselectStep]_vars

\* C3 witness: a run failed in its second sub-batch, and a later run has
\* selected exactly the rows the failed run left unindexed
C3_Witness ==
    \E r, q \in Runs :
        /\ pc[r] = "done" /\ endedAt[r] = "marking"
        /\ markPos[r] > 0 /\ markPos[r] < Len(documents[r])
        /\ r < q /\ pc[q] = "selected" /\ coll[q] = coll[r]
        /\ Range(documents[q]) = RestFrom(r, markPos[r])

\* C7: a run that selects after a run on the same collection returned
\* completed (no ingestion in between) selects nothing: unless the query
\* itself raises, it returns completed with zero processed and zero indexed,
\* and the step changes neither the table nor the vector store.
C7_SecondRunStep ==
    \A r, q \in Runs :
        ( /\ r # q /\ coll[r] = coll[q]
          /\ Returned(q, "completed")
          /\ pc[r] = "started" /\ pc'[r] \notin {"started", "crashed"}
          /\ stats'[r].status # "failed" )
        => /\ pc'[r] = "done"
           /\ stats'[r] = [documents_processed |-> 0, documents_indexed |-> 0,
                           status |-> "completed", note |-> "message"]
           /\ marked'[r] = {} /\ ~upserted'[r]
           /\ UNCHANGED <<is_indexed, vstore, namespaces>>

C7_SecondRunIsNoOp == [][C7_SecondRunStep]_vars

\* C7 witness: a run indexed rows and returned completed, and a second run
\* on that collection found nothing
C7_Witness ==
    \E r, q \in Runs :
        /\ q < r /\ coll[r] = coll[q]
        /\ Returned(q, "completed") /\ documents[q] # <<>>
        /\ Returned(r, "completed") /\ documents[r] = <<>>
        /\ stats[r].note = "message"

\* C8: the store holds at most one entry per (row, chunk), whatever the
\* number of runs.
C8_OneEntryPerChunk ==
    \A d \in Docs : \A k \in 1..NumChunks(d) : Cardinality(EntriesOf(d, k)) <= 1

\* C9: a run that crashed before the marking phase has committed no flag (a
\* row it selected is indexed only if another run committed it), and when a
\* run returns completed every row of its collection that has content is
\* indexed.
C9_CrashThenRetry ==
    /\ \A r \in Runs :
          (pc[r] = "crashed" /\ endedAt[r] # "marking") => marked[r] = {}
    /\ \A d \in Docs :
          is_indexed[d] =>
             \/ d \in InitiallyIndexed
             \/ \E r \in Runs :
                   /\ d \in marked[r]
                   /\ ~(pc[r] = "crashed" /\ endedAt[r] # "marking")
    /\ \A r \in Runs :
          Returned(r, "completed") =>
             \A d \in Docs :
                (CollectionOf(d) = coll[r] /\ ContentOf(d) # "null")
                   => is_indexed[d]

\* C9 witness: a run crashed after its upsert and before marking, and a
\* later run on the same collection selected rows and returned completed
C9_Witness ==
    \E r, q \in Runs :
        /\ pc[r] = "crashed" /\ endedAt[r] = "piped"
        /\ r < q /\ coll[q] = coll[r]
        /\ Returned(q, "completed") /\ documents[q] # <<>>

\* C12: index_documents_by_collection never raises to its caller: a call that
\* left its try block by an exception (in the selection, the vector-store
\* setup, the pipeline or the marking) returned stats with status "failed"
\* and an error text, and every returned stats has status "completed" or
\* "failed", never "started".
C12_NeverRaises ==
    \A r \in Runs :
        /\ pc[r] # "raised"
        /\ pc[r] = "done" =>
              /\ stats[r].status \in {"completed", "failed"}
              /\ endedAt[r] # "none" <=> stats[r].status = "failed"
              /\ stats[r].status = "failed" => stats[r].note = "error"

\* C12 witness: one call failed in its marking loop and another in its
\* selection, and both returned
C12_Witness ==
    \E r, q \in Runs :
        /\ Returned(r, "failed") /\ endedAt[r] = "marking"
        /\ Returned(q, "failed") /\ endedAt[q] = "started"

\* the status of a run as the state machine of a run names it
Phase(p, st) ==
    CASE p = "idle" -> "IDLE"
      [] p = "started" -> "STARTED"
      [] p \in {"selected", "setup", "piped", "marking"} -> "PROCESSING"
      [] p = "done" /\ st.status = "completed" -> "COMPLETED"
      [] p = "done" /\ st.status = "failed" -> "FAILED"
      [] p = "crashed" -> "KILLED"
      [] OTHER -> "UNKNOWN"

\* the steps of a run that was not killed follow the given transitions
FollowsMachine(transitions) ==
    \A r \in Runs :
        LET from == Phase(pc[r], stats[r])
            to == Phase(pc'[r], stats'[r])
        IN  (from # to /\ from # "IDLE" /\ to # "KILLED")
               => <<from, to>> \in transitions

\* a run that selects nothing goes straight to completed with zero processed,
\* zero indexed and a message, and the step touches neither the vector store
\* nor the table
EmptyRunStep ==
    \A r \in Runs :
        LET to == Phase(pc'[r], stats'[r])
        IN  /\ (pc[r] = "started" /\ Unindexed(coll[r]) = {}
                    /\ to \notin {"STARTED", "FAILED", "KILLED"})
                  => to = "COMPLETED"
            /\ (pc[r] = "started" /\ to = "COMPLETED")
                  => /\ Unindexed(coll[r]) = {}
                     /\ stats'[r] = [documents_processed |-> 0,
                                     documents_indexed |-> 0,
                                     status |-> "completed", note |-> "message"]
                     /\ UNCHANGED <<vstore, namespaces, is_indexed, indexed_at>>

\* C13, as stated: every run follows STARTED -> COMPLETED(empty) |
\* STARTED -> PROCESSING -> COMPLETED | STARTED -> PROCESSING -> FAILED and
\* ends in one terminal status; an empty selection goes straight to completed
\* with zero processed, zero indexed and a message, without touching the
\* vector store or the table.
C13_AsStated ==
    [][ /\ FollowsMachine({<<"STARTED", "COMPLETED">>, <<"STARTED", "PROCESSING">>,
                           <<"PROCESSING", "COMPLETED">>, <<"PROCESSING", "FAILED">>})
        /\ EmptyRunStep ]_vars

\* C13, amended: the state machine has a fourth path, STARTED -> FAILED, taken
\* when the selection itself raises; with it, every run that is not killed
\* follows the machine and ends in one terminal status, and the empty
\* selection behaves as stated.
C13_RunStateMachine ==
    [][ /\ FollowsMachine({<<"STARTED", "COMPLETED">>, <<"STARTED", "PROCESSING">>,
                           <<"STARTED", "FAILED">>,
                           <<"PROCESSING", "COMPLETED">>, <<"PROCESSING", "FAILED">>})
        /\ EmptyRunStep ]_vars

\* C13 witness: a run was killed after it had marked the rows of its
\* collection, and the next run on that collection selected nothing: it
\* returned completed with the message and never reached the vector store
C13_Witness ==
    \E r, q \in Runs :
        /\ pc[r] = "crashed" /\ endedAt[r] = "marking" /\ marked[r] # {}
        /\ coll[q] = coll[r]
        /\ Returned(q, "completed") /\ documents[q] = <<>>
        /\ stats[q].note = "message" /\ ~upserted[q]

\* the rows of collection c that are not indexed and have non-empty content
UnindexedWithContent(c) ==
    {d \in Docs : /\ CollectionOf(d) = c
                  /\ ~is_indexed[d]
                  /\ ContentOf(d) \notin {"null", "empty"}}

\* C15: get_unindexed_documents returns exactly the rows of the given
\* collection that have is_indexed = false and non-empty content (no row of
\* another collection, no indexed row, no row without content or with empty
\* content), each once, and the query changes nothing in the table or the
\* vector store.
C15_SelectsExactly ==
    [][ \A r \in Runs :
          (pc[r] = "started" /\ (pc'[r] = "selected" \/ Returned(r, "completed")'))
             => /\ Range(documents'[r]) = UnindexedWithContent(coll[r])
                /\ Len(documents'[r]) = Cardinality(UnindexedWithContent(coll[r]))
                /\ UNCHANGED <<is_indexed, indexed_at, last_crawled, vstore,
                               namespaces>> ]_vars

\* C16: in every reachable state, with the crawler writing rows while runs
\* are under way and with marking going over several sub-batches, a row
\* with is_indexed = true has an indexed_at that is not NULL and not earlier
\* than the last write of its content at the moment the flag was committed
\* (a later write of the crawler resets the flag, so for a flagged row that
\* moment's last write is last_crawled).
C16_IndexedAtNotStale ==
    \A d \in Docs :
        is_indexed[d] =>
            /\ indexed_at[d] # NULL
            /\ indexed_at[d] >= last_crawled[d]

\* C14: start_background_indexing only schedules the run: the trigger has
\* returned as soon as the task exists, before anything of the run has
\* happened, and stays returned whatever the run does; a run that returns,
\* failed or not, is logged with its status and nothing is raised out of the
\* task; and whatever became of the runs before it, the next trigger can
\* schedule a new run.
C14_BackgroundRun ==
    \A r \in Runs :
        /\ pc[r] # "idle" => trigger[r] = "returned"
        /\ pc[r] # "raised"
        /\ pc[r] = "done" =>
              /\ log[r] = stats[r].status
              /\ log[r] \in {"completed", "failed"}
        /\ (pc[r] = "idle" /\ \A q \in Runs : q < r => pc[q] # "idle")
              => \A c \in Collections : ENABLED Schedule(r, c)

\* C14 witness: a background run failed and was logged as failed, and a run
\* triggered after it indexed rows and was logged as completed
C14_Witness ==
    \E r, q \in Runs :
        /\ r < q
        /\ pc[r] = "done" /\ log[r] = "failed"
        /\ pc[q] = "done" /\ log[q] = "completed" /\ marked[q] # {}
        /\ trigger[r] = "returned" /\ trigger[q] = "returned"

\* C30: in every result index_documents_by_collection returns,
\* documents_processed is the number of rows the run selected and
\* documents_indexed is the number of rows whose flag the run committed, also
\* in a failed result returned after some sub-batches were committed.
C30_StatsCountWhatHappened ==
    \A r \in Runs :
        pc[r] = "done" =>
            /\ stats[r].documents_processed = Len(documents[r])
            /\ stats[r].documents_indexed = Cardinality(marked[r])

\* no run is under way
Quiescent == \A r \in Runs : pc[r] \notin Active \cup {"scheduled"}

\* C28: with the crawler writing rows while runs are under way, a run never
\* leaves a row flagged over vectors of content the crawler has replaced
\* since the run selected it: in every state in which no run is under way, a
\* row with is_indexed = true has, for each of its chunks, a store entry
\* computed from the row's current content.
C28_IndexedMeansCurrentVectors ==
    Quiescent =>
        \A d \in Docs :
            is_indexed[d] =>
                \A k \in 1..NumChunks(d) :
                    \E e \in EntriesOf(d, k) : e.last_crawled = last_crawled[d]

(***************************************************************************)
(* Properties of the chat endpoint                                         *)
(***************************************************************************)
\* the rows of session s that hold message m
RowsWith(s, m) == {i \in DOMAIN chatMessages[s] : chatMessages[s][i].msg = m}

Answered(q, code) == rpc[q] = "done" /\ response[q].code = code

\* C4: whatever the interleaving of requests that append to a session, its
\* rows carry the ordinals 0..n-1 in creation order, each once.
C4_OrdinalsGapless ==
    \A s \in SessionIds :
        \A i \in DOMAIN chatMessages[s] : chatMessages[s][i].message_idx = i - 1

\* C4 witness: two requests that both loaded the session before either
\* saved have both appended to it
C4_Witness ==
    \E p, q \in Reqs :
        /\ p # q /\ session_id[p] = session_id[q]
        /\ Answered(p, 200) /\ Answered(q, 200)
        /\ message_history[p] = message_history[q]
        /\ Len(chatMessages[session_id[p]]) >= 3

\* the messages persisted for session s
Persisted(s) == {chatMessages[s][i].msg : i \in DOMAIN chatMessages[s]}

\* C5: every message a successful turn produced is persisted, in the turn's
\* session, and no message is persisted twice: not twice in one session and
\* not in two sessions.
C5_PersistedExactlyOnce ==
    /\ \A q \in Reqs :
          Answered(q, 200) =>
             \A k \in DOMAIN new_messages[q] :
                new_messages[q][k] \in Persisted(session_id[q])
    /\ \A s \in SessionIds : Cardinality(Persisted(s)) = Len(chatMessages[s])
    /\ \A s, t \in SessionIds : s # t => Persisted(s) \cap Persisted(t) = {}

\* C5 witness: a session created under a caller-supplied unknown id by two
\* racing first turns, continued by a turn that loaded their messages
C5_Witness ==
    \E p, q, c \in Reqs :
        /\ p # q /\ given[p] = given[q] /\ given[p] = given[c]
        /\ chat[p] = "none" /\ chat[q] = "none"
        /\ Answered(p, 200) /\ Answered(q, 200) /\ Answered(c, 200)
        /\ ~message_history[c].isNone /\ Len(message_history[c].list) >= 2

\* C6: at most one session row exists per session id.
C6_OneSessionPerId == \A s \in SessionIds : chatRows[s] <= 1

\* C6 witness: two requests presented the same unknown id, both passed the
\* existence check before either created the session, and both went on
C6_Witness ==
    \E p, q \in Reqs :
        /\ p # q /\ given[p] = given[q]
        /\ chat[p] = "none" /\ chat[q] = "none"
        /\ rpc[p] \in {"ready", "ran", "done"}
        /\ rpc[q] \in {"ready", "ran", "done"}
        /\ chatRows[given[p]] = 1

\* C10: a request whose session id is unknown to the store is never answered
\* 404; once past the check, a session exists under exactly that id and the
\* turn runs without history; when it succeeds, its messages are persisted
\* under that id and the response carries that id.
C10_UnknownIdCreatesSession ==
    \A q \in Reqs :
        chat[q] = "none" =>
            /\ response[q].code # 404
            /\ session_id[q] = given[q]
            /\ rpc[q] \in {"ready", "ran", "done"} =>
                  /\ chatRows[given[q]] >= 1
                  /\ message_history[q].isNone
                  /\ AgentHistory(q) = <<>>
            /\ Answered(q, 200) =>
                  /\ response[q].session_id = given[q]
                  /\ new_messages[q] # <<>>
                  /\ \A k \in DOMAIN new_messages[q] :
                        RowsWith(given[q], new_messages[q][k]) # {}

\* C10 witness: a turn on an unknown id was answered 200
C10_Witness ==
    \E q \in Reqs :
        /\ chat[q] = "none" /\ given[q] \in ClientIds
        /\ Answered(q, 200)
        /\ Len(chatMessages[given[q]]) >= 1

\* the request was answered 500 because generate_agent or run_sync raised
AgentFailed(q) == Answered(q, 500) /\ "exception text" \in response[q].body

\* C26: what the caller of a failed POST /chat/ receives is a generic
\* message and the trace id issued for the request, and not the text of the
\* internal exception.
C26_ErrorAnswerIsGeneric ==
    \A q \in Reqs :
        Answered(q, 500) =>
            /\ "generic message" \in response[q].body
            /\ "trace_id" \in response[q].body
            /\ "exception text" \notin response[q].body

\* C27: a request calls the model at most once; when the call fails the
\* request is over, answered 500, with that one call and no result.
C27_ModelCalledAtMostOnce ==
    \A q \in Reqs :
        /\ model_calls[q] <= 1
        /\ rpc[q] \in {"idle", "looked", "ready"} => model_calls[q] = 0
        /\ (rpc[q] = "done" /\ "exception text" \in response[q].body) =>
              /\ response[q].code = 500
              /\ model_calls[q] = 1
              /\ new_messages[q] = <<>>

\* C27 witness: the model call of one request failed and the request was
\* answered 500 after one call; a later request on the same session called
\* the model once too and succeeded
C27_Witness ==
    \E p, q \in Reqs :
        /\ p < q /\ session_id[p] = session_id[q]
        /\ AgentFailed(p) /\ model_calls[p] = 1
        /\ Answered(q, 200) /\ model_calls[q] = 1

\* the session rows request q created are gone, or were never there
NoRowLeftBy(q) ==
    /\ is_new_session[q] => chatRows[session_id[q]] = 0
    /\ chat[q] = "none" =>
          \/ chatRows[given[q]] = 0
          \/ \E p \in Reqs : p # q /\ session_id[p] = given[q]
                               /\ rpc[p] \in {"ready", "ran", "done"}

\* C29: a request whose agent call failed has left nothing behind: no
\* session row it created and no message of it in any session's log.
C29_FailedTurnLeavesNothing ==
    \A q \in Reqs :
        AgentFailed(q) =>
            /\ NoRowLeftBy(q)
            /\ \A s \in SessionIds : \A i \in DOMAIN chatMessages[s] :
                  chatMessages[s][i].msg.id[1] # q

\* C11: deleting a session that does not exist is answered 404, a storage
\* failure is answered 500 (so the two are told apart), the delete of a
\* missing session leaves the tables as they are, and so does every
\* repetition of it.
C11_DeleteMissing ==
    [][ \A x \in Dels :
          (dpc[x] = "idle" /\ dpc'[x] = "done") =>
             /\ dsuccess'[x] = "false" =>
                   /\ dresponse'[x] = 404
                   /\ UNCHANGED <<chatRows, chatMessages>>
             /\ dsuccess'[x] = "raised" => dresponse'[x] = 500
             /\ chatRows[dsession'[x]] = 0 => dsuccess'[x] \in {"false", "raised"} ]_vars

(***************************************************************************)
(* Properties of the history functions                                     *)
(***************************************************************************)
\* the last n elements of l, all of l when it has fewer
Newest(l, n) == [i \in 1..Min(n, Len(l)) |-> l[Len(l) - Min(n, Len(l)) + i]]

\* C17: for a history with k system messages among n and any limit m >= 0,
\* m = 0 included, truncate_message_history returns exactly the k system
\* messages and the min(n-k, m) most recent other messages, each group in
\* its original order, the system messages first whenever the history is
\* cut (a history within the limit is the subject of C18).
C17_TruncateKeeps ==
    fnCalled = "truncate" =>
        LET system_messages == SelectSeq(fnHistory, IsSystem)
            other_messages == SelectSeq(fnHistory, IsOther)
        IN  /\ SelectSeq(fnResult, IsSystem) = system_messages
            /\ SelectSeq(fnResult, IsOther) = Newest(other_messages, fnMax)
            /\ Len(fnHistory) > fnMax =>
                  fnResult = system_messages \o Newest(other_messages, fnMax)

\* C18: when len(history) <= m, truncate_message_history(history, m) is
\* history itself: the same messages in the same order, the system messages
\* where they were.
C18_WithinLimitUnchanged ==
    (fnCalled = "truncate" /\ Len(fnHistory) <= fnMax) => fnResult = fnHistory

\* C18 witness: a history within the limit whose system message comes after
\* another message was handed in and came back as it was
C18_Witness ==
    /\ fnCalled = "truncate" /\ Len(fnHistory) <= fnMax
    /\ Len(fnHistory) >= 2
    /\ IsOther(fnHistory[1]) /\ IsSystem(fnHistory[2])
    /\ fnResult = fnHistory

\* the ids of the messages of l that have one
IdsIn(l) == {m.id : m \in {x \in Range(l) : HasId(x)}}

NotInExisting(msg) == ~HasId(msg) \/ msg.id \notin IdsIn(fnHistory)

A == [id |-> 1, kind |-> "request"]
B == [id |-> 2, kind |-> "response"]
C == [id |-> 3, kind |-> "request"]

\* C19: combine_message_histories(existing, new) is existing, in its order,
\* followed by exactly the messages of new whose id is not among the ids of
\* existing, in their order; both arguments are left as they were; and
\* [A(id=1), B(id=2)] combined with [B(id=2), C(id=3)] is [A, B, C].
C19_Result ==
    fnCalled = "combine" =>
        /\ fnResult = fnHistory \o SelectSeq(fnNew, NotInExisting)
        /\ (fnHistory = <<A, B>> /\ fnNew = <<B, C>>) => fnResult = <<A, B, C>>

C19_CombineAppendsUnknown ==
    []C19_Result /\ [][UNCHANGED <<fnHistory, fnNew>>]_vars

\* C19 witness: the example of the claim
C19_Witness ==
    /\ fnCalled = "combine"
    /\ fnHistory = <<A, B>> /\ fnNew = <<B, C>>
    /\ fnResult = <<A, B, C>>

\* number of messages of l that have no id
CountNoId(l) == Len(SelectSeq(l, LAMBDA m : ~HasId(m)))

\* C20: a message of new that has no id is always appended, whatever
\* existing holds: the messages without id of the result are those of
\* existing followed by all those of new, also when an equal message was
\* already there.
C20_NoIdAlwaysAppended ==
    fnCalled = "combine" =>
        SelectSeq(fnResult, LAMBDA m : ~HasId(m))
            = SelectSeq(fnHistory, LAMBDA m : ~HasId(m))
              \o SelectSeq(fnNew, LAMBDA m : ~HasId(m))

\* C20 witness: new holds a message without id that equals a message of
\* existing, and a second one like it, and both were appended
C20_Witness ==
    /\ fnCalled = "combine"
    /\ Len(fnNew) = 2 /\ ~HasId(fnNew[1]) /\ fnNew[2] = fnNew[1]
    /\ \E i \in DOMAIN fnHistory : fnHistory[i] = fnNew[1]
    /\ CountNoId(fnResult) >= 3
(***************************************************************************)
(* GET /chat/{session_id}: claims                                          *)
(***************************************************************************)
\* a step in which get_chat_history answered
GetStep == chat_history' # chat_history

\* the session the answer is about, as the store had it when the lookup ran
Asked == chat_history'.session_id
Looked == GetStep /\ chat_history'.chat # "raised"

\* C23: GET /chat/{id} for a session id that is not in the store, the lookup
\* having returned, answers 404 and not 500, and leaves the store as it was:
\* no session is created.
C23_GetMissingIsNotFound ==
    [][Looked /\ chatRows[Asked] = 0
          => /\ chat_history'.code = 404
             /\ UNCHANGED <<chatRows, chatMessages>>]_vars

\* a session exists, and a GET for another id, which does not, was answered
C23_Witness ==
    /\ chat_history.code = 404
    /\ chatRows[chat_history.session_id] = 0
    /\ \E s \in SessionIds : chatRows[s] > 0 /\ chatMessages[s] # <<>>

\* POST /chat/ without session id, answered 200
CreatedBy(q) ==
    rpc[q] = "done" /\ response[q].code = 200 /\ is_new_session[q]

\* C24: once POST /chat/ without session id has answered 200 a session
\* exists under the returned id, and every GET /chat/{id} on an existing
\* session, the lookup having returned, answers 200 with num_messages equal
\* to the number of rows persisted for the session, after the first turn and
\* after every further one.
C24_HistoryCountsPersisted ==
    [][/\ \A q \in Reqs : CreatedBy(q)' => chatRows'[response'[q].session_id] > 0
       /\ Looked /\ chatRows[Asked] > 0
            => /\ chat_history'.code = 200
               /\ chat_history'.num_messages = Len(chatMessages'[Asked])
               /\ Len(chat_history'.messages) = chat_history'.num_messages]_vars

\* two successful turns on a session created by POST, then a GET on it
C24_Witness ==
    \E q, p \in Reqs :
        /\ q # p /\ CreatedBy(q)
        /\ rpc[p] = "done" /\ response[p].code = 200
        /\ response[p].session_id = response[q].session_id
        /\ chat_history.code = 200
        /\ chat_history.session_id = response[q].session_id
        /\ chat_history.num_messages = Len(chatMessages[chat_history.session_id])
        /\ chat_history.num_messages >= 2

\* C25: a GET on a session whose rows hold malformed content, the lookup
\* having returned, answers 200; it returns one message per row in the rows'
\* order, a row of malformed content wrapped as {"text": content} and every
\* other row parsed.
C25_MalformedContentIsWrapped ==
    [][Looked /\ chatRows[Asked] > 0
          => /\ chat_history'.code = 200
             /\ Len(chat_history'.messages) = Len(chatMessages[Asked])
             /\ \A i \in 1..Len(chatMessages[Asked]) :
                   /\ chat_history'.messages[i].message_idx
                         = chatMessages[Asked][i].message_idx
                   /\ chat_history'.messages[i].content
                         = IF chatMessages[Asked][i].content.form = "json"
                           THEN chatMessages[Asked][i].content.parsed
                           ELSE [text |-> chatMessages[Asked][i].content]]_vars

\* a history of MaxRows rows was read, a malformed row between parsed ones
C25_Witness ==
    /\ chat_history.code = 200
    /\ Len(chat_history.messages) = MaxRows
    /\ chat_history.messages[1].content = Message(1, 1)
    /\ chat_history.messages[2].content = [text |-> [form |-> "cut", parsed |-> NoMsg]]
    /\ chat_history.messages[MaxRows].content = Message(1, 2)


(***************************************************************************)
(* app/utils/pii.py.  A text is a sequence of characters; offsets are      *)
(* Python's, from 0.                                                        *)
(***************************************************************************)
Digits == {"0", "1", "2", "3", "4", "5", "6", "7", "8", "9"}
LowerSeq == <<"a", "b", "c", "d", "e", "f", "g", "h", "i", "j", "k", "l", "m", "n", "o", "p", "q", "r", "s", "t", "u", "v", "w", "x", "y", "z">>
UpperSeq == <<"A", "B", "C", "D", "E", "F", "G", "H", "I", "J", "K", "L", "M", "N", "O", "P", "Q", "R", "S", "T", "U", "V", "W", "X", "Y", "Z">>
Letters == Range(LowerSeq) \cup Range(UpperSeq)
AlNum == Letters \cup Digits

\* \w, which decides where \b holds
WordChars == AlNum \cup {"_"}

\* [A-Za-z0-9._%+-] and [A-Za-z0-9.-] of the e-mail pattern
LocalChars == AlNum \cup {".", "_", "%", "+", "-"}
DomainChars == AlNum \cup {".", "-"}

Max(a, b) == IF a > b THEN a ELSE b
Greatest(S) == CHOOSE k \in S : \A j \in S : j <= k
Least(S) == CHOOSE k \in S : \A j \in S : k <= j

\* text[p], the empty string outside the text
CharAt(text, p) == IF p >= 0 /\ p < Len(text) THEN text[p + 1] ELSE ""

\* text[a:b] and text[a:] with a >= 0
Slice(text, a, b) == SubSeq(text, Min(a, Len(text)) + 1, Min(b, Len(text)))
SliceFrom(text, a) == SubSeq(text, Min(a, Len(text)) + 1, Len(text))

\* lit in text
StartsWith(text, p, lit) == \A k \in 1..Len(lit) : CharAt(text, p + k - 1) = lit[k]
Contains(lit, text) == \E p \in 0..Len(text) : StartsWith(text, p, lit)

\* \b at offset p
WordBoundary(text, p) ==
    (CharAt(text, p - 1) \in WordChars) # (CharAt(text, p) \in WordChars)

\* the length of the longest run of characters of a class from offset p
RECURSIVE RunLen(_, _, _)
RunLen(text, p, cls) ==
    IF CharAt(text, p) \in cls THEN 1 + RunLen(text, p + 1, cls) ELSE 0

\* Each pattern tried at offset p: the end of the match the regex engine
\* finds there (greedy, the longest repetition that lets the rest match), or
\* NULL.
\* "email": \b[A-Za-z0-9._%+-]+@[A-Za-z0-9.-]+\.[A-Za-z]{2,}\b
MatchEmail(text, p) ==
    LET l == RunLen(text, p, LocalChars)
        j == p + l + 1
        d == RunLen(text, j, DomainChars)
        tld(q) == RunLen(text, q, Letters)
        ok == {k \in 1..d : /\ CharAt(text, j + k) = "."
                            /\ tld(j + k + 1) >= 2
                            /\ WordBoundary(text, j + k + 1 + tld(j + k + 1))}
    IN  IF WordBoundary(text, p) /\ l >= 1 /\ CharAt(text, p + l) = "@" /\ ok # {}
        THEN j + Greatest(ok) + 1 + tld(j + Greatest(ok) + 1)
        ELSE NULL

\* "phone": \b(?:\+?254|0)(?:7|1)\d{8}\b
PhonePrefixes == <<<<"+", "2", "5", "4">>, <<"2", "5", "4">>, <<"0">>>>
MatchPhone(text, p) ==
    LET rest(q) == /\ CharAt(text, q) \in {"7", "1"}
                   /\ RunLen(text, q + 1, Digits) >= 8
                   /\ WordBoundary(text, q + 9)
        ok == {k \in 1..Len(PhonePrefixes) :
                  /\ StartsWith(text, p, PhonePrefixes[k])
                  /\ rest(p + Len(PhonePrefixes[k]))}
    IN  IF WordBoundary(text, p) /\ ok # {}
        THEN p + Len(PhonePrefixes[Least(ok)]) + 9
        ELSE NULL

\* "national_id": \b\d{7,8}\b
MatchNationalId(text, p) ==
    LET ok == {k \in 7..8 : RunLen(text, p, Digits) >= k /\ WordBoundary(text, p + k)}
    IN  IF WordBoundary(text, p) /\ ok # {} THEN p + Greatest(ok) ELSE NULL

\* "passport": \b[A-Za-z0-9]{6,9}\b
MatchPassport(text, p) ==
    LET ok == {k \in 6..9 : RunLen(text, p, AlNum) >= k /\ WordBoundary(text, p + k)}
    IN  IF WordBoundary(text, p) /\ ok # {} THEN p + Greatest(ok) ELSE NULL

\* _PATTERNS, in the order of the dict
PatternKinds == <<"email", "phone", "national_id", "passport">>

MatchAt(kind, text, p) ==
    CASE kind = "email" -> MatchEmail(text, p)
      [] kind = "phone" -> MatchPhone(text, p)
      [] kind = "national_id" -> MatchNationalId(text, p)
      [] kind = "passport" -> MatchPassport(text, p)

\* pattern.finditer(text): the leftmost match, then on from its end
RECURSIVE FindIter(_, _, _)
FindIter(kind, text, p) ==
    IF p >= Len(text) THEN <<>>
    ELSE IF MatchAt(kind, text, p) = NULL THEN FindIter(kind, text, p + 1)
    ELSE <<[kind |-> kind, match |-> Slice(text, p, MatchAt(kind, text, p)),
            start |-> p, end |-> MatchAt(kind, text, p)]>>
         \o FindIter(kind, text, MatchAt(kind, text, p))

\* the characters each side of a national_id or passport match that are
\* searched for "http" and "@"
Window == 8

\* "if kind in {national_id, passport}: ... continue"
Suppressed(text, m) ==
    /\ m.kind \in {"national_id", "passport"}
    /\ LET surrounding == Slice(text, Max(0, m.start - Window), m.end + Window)
       IN  Contains(<<"h", "t", "t", "p">>, surrounding) \/ Contains(<<"@">>, surrounding)

\* the matches of one pattern that are appended
Kept(text, kind) ==
    SelectSeq(FindIter(kind, text, 0), LAMBDA m : ~Suppressed(text, m))

RECURSIVE KeptFrom(_, _)
KeptFrom(text, k) ==
    IF k > Len(PatternKinds) THEN <<>>
    ELSE Kept(text, PatternKinds[k]) \o KeptFrom(text, k + 1)

\* text = None: the one value of a text that is not a sequence of characters
NoneText == <<"None">>

\* "if not text": None or the empty string
Falsy(text) == text = <<>> \/ text = NoneText

detect_pii(text) == IF Falsy(text) THEN <<>> ELSE KeptFrom(text, 1)

\* m.kind.upper()
UpperChar(c) ==
    IF c \in Range(LowerSeq)
    THEN UpperSeq[CHOOSE k \in 1..Len(LowerSeq) : LowerSeq[k] = c]
    ELSE c
KindChars(kind) ==
    CASE kind = "email" -> <<"e", "m", "a", "i", "l">>
      [] kind = "phone" -> <<"p", "h", "o", "n", "e">>
      [] kind = "national_id" -> <<"n", "a", "t", "i", "o", "n", "a", "l", "_", "i", "d">>
      [] kind = "passport" -> <<"p", "a", "s", "s", "p", "o", "r", "t">>

\* f"<{m.kind.upper()}_REDACTED>"
Placeholder(kind) ==
    <<"<">> \o [k \in 1..Len(KindChars(kind)) |-> UpperChar(KindChars(kind)[k])]
    \o <<"_", "R", "E", "D", "A", "C", "T", "E", "D", ">">>

\* faulty variant: no sort, the matches are applied in the order given
InsertByStart_AsGiven(sorted, m) == Append(sorted, m)

\* sorted(matches, key=lambda x: x.start, reverse=True): stable, matches of
\* one start stay in the order detect_pii gave them
InsertByStart(sorted, m) ==
    LET k == Cardinality({i \in 1..Len(sorted) : sorted[i].start >= m.start})
    IN  SubSeq(sorted, 1, k) \o <<m>> \o SubSeq(sorted, k + 1, Len(sorted))

RECURSIVE SortedByStartDesc(_)
SortedByStartDesc(ms) ==
    IF ms = <<>> THEN <<>>
    ELSE InsertByStart(SortedByStartDesc(SubSeq(ms, 1, Len(ms) - 1)), ms[Len(ms)])

\* the loop: redacted = redacted[: m.start] + placeholder + redacted[m.end :]
RECURSIVE Replaced(_, _)
Replaced(redacted, ms) ==
    IF ms = <<>> THEN redacted
    ELSE Replaced(Slice(redacted, 0, ms[1].start) \o Placeholder(ms[1].kind)
                  \o SliceFrom(redacted, ms[1].end), Tail(ms))

redact_pii(text, matches) ==
    IF Falsy(text) THEN text
    ELSE IF matches = <<>> THEN text
    ELSE Replaced(text, SortedByStartDesc(matches))

\* The texts: up to MaxItems items joined by ", ".  The first three items in
\* this order are the text of test_redact.
Items ==
    <<<<"I", "D", " ", "1", "2", "3", "4", "5", "6", "7", "8">>,
      <<"p", "h", "o", "n", "e", " ", "0", "7", "1", "2", "3", "4", "5", "6", "7", "8">>,
      <<"e", "m", "a", "i", "l", " ", "u", "s", "e", "r", "@", "e", "x", "a", "m", "p", "l", "e", ".", "c", "o", "m">>,
      <<"a", "@", "b", ".", "c", "o", " ", "1", "2", "3", "4", "5", "6", "7">>,
      <<"t", "e", "l", " ", "+", "2", "5", "4", "7", "1", "2", "3", "4", "5", "6", "7", "8">>,
      <<"n", "o", " ", "A", "B", "1", "2", "3", "4", "5", "6">>>>

RECURSIVE Joined(_)
Joined(its) ==
    IF its = <<>> THEN <<>>
    ELSE IF Len(its) = 1 THEN Items[its[1]]
    ELSE Items[its[1]] \o <<",", " ">> \o Joined(Tail(its))

Texts == {Joined(its) : its \in UNION {[1..n -> 1..Len(Items)] : n \in 0..MaxItems}}

InitPii ==
    /\ InitIndex /\ InitChat /\ InitDelete /\ InitNoCall /\ InitGet /\ InitNoFollowUp
    /\ piiText \in Texts
    /\ piiMatches = <<>>
    /\ piiRedacted = <<>>
    /\ piiRescan = <<>>
    /\ piiCalled = "none"

outsidePii == <<idxVars, chatVars, delVars, fnVars, getVars, fuqVars>>

\* matches = detect_pii(text)
CallDetect ==
    /\ piiCalled = "none"
    /\ piiMatches' = detect_pii(piiText)
    /\ piiCalled' = "detected"
    /\ UNCHANGED <<piiText, piiRedacted, piiRescan>>
    /\ UNCHANGED outsidePii

\* red = redact_pii(text, matches)
CallRedact ==
    /\ piiCalled = "detected"
    /\ piiRedacted' = redact_pii(piiText, piiMatches)
    /\ piiCalled' = "redacted"
    /\ UNCHANGED <<piiText, piiMatches, piiRescan>>
    /\ UNCHANGED outsidePii

\* detect_pii(red)
CallRescan ==
    /\ piiCalled = "redacted"
    /\ piiRescan' = detect_pii(piiRedacted)
    /\ piiCalled' = "rescanned"
    /\ UNCHANGED <<piiText, piiMatches, piiRedacted>>
    /\ UNCHANGED outsidePii

NextPii == CallDetect \/ CallRedact \/ CallRescan

SpecPii == InitPii /\ [][NextPii]_vars

HasKind(ms, kind) == \E i \in 1..Len(ms) : ms[i].kind = kind

\* C21: for a text in which detect_pii found a national-ID number, a phone
\* number and an e-mail address, redact_pii(text, matches) contains
\* <NATIONAL_ID_REDACTED>, <PHONE_REDACTED> and <EMAIL_REDACTED> whole, and
\* none of the matched literals.
C21_RedactedHasPlaceholders ==
    /\ piiCalled \in {"redacted", "rescanned"}
    /\ \A kind \in {"national_id", "phone", "email"} : HasKind(piiMatches, kind)
    => /\ \A kind \in {"national_id", "phone", "email"} :
             Contains(Placeholder(kind), piiRedacted)
       /\ \A i \in 1..Len(piiMatches) : ~Contains(piiMatches[i].match, piiRedacted)

\* C22: detect_pii of a redacted text is empty.
C22_RescanFindsNothing ==
    piiCalled = "rescanned" => piiRescan = <<>>

(***************************************************************************)
(* Frame of a run of index_documents_by_collection                         *)
(***************************************************************************)
\* the run whose UPDATE and commit the step is
Marking(r) == markPos'[r] > markPos[r]

\* C31: a step of a run changes is_indexed and indexed_at only on rows the
\* run selected at its start, rows of its own collection; all other rows
\* keep flag and timestamp.  No step of a run changes a row's content
\* (last_crawled tells its version), removes a row, or takes a flag from
\* true back to false.
C31_RunWritesOnlySelected ==
    [][/\ \A d \in Docs :
            /\ is_indexed'[d] # is_indexed[d] \/ indexed_at'[d] # indexed_at[d]
                  => \E r \in Runs : /\ Marking(r)
                                     /\ d \in Range(documents[r])
                                     /\ CollectionOf(d) = coll[r]
            /\ is_indexed[d] => is_indexed'[d]
            /\ last_crawled'[d] = last_crawled[d]
       /\ DOMAIN is_indexed' = DOMAIN is_indexed
       /\ DOMAIN indexed_at' = DOMAIN indexed_at]_vars

\* a run over c1 marked its selection and returned; the row of c2, the row
\* without content and the row indexed earlier are as they were
C31_Witness ==
    \E r \in Runs :
        /\ pc[r] = "done" /\ coll[r] = "c1"
        /\ marked[r] # {}
        /\ \A d \in marked[r] : is_indexed[d] /\ indexed_at[d] = now[r]
        /\ \A d \in Docs \ marked[r] :
              /\ is_indexed[d] = (d \in InitiallyIndexed)
              /\ indexed_at[d] = IF d \in InitiallyIndexed THEN 0 ELSE NULL
        /\ \E d \in Docs \ marked[r] : CollectionOf(d) = "c1" /\ ~is_indexed[d]
        /\ \E d \in Docs \ marked[r] : CollectionOf(d) = "c2" /\ ~is_indexed[d]

(***************************************************************************)
(* POST /chat/ on a session whose log is longer than the history limit     *)
(***************************************************************************)
LongSession == <<"client", 1>>

\* a log of n rows written by earlier turns, requests and responses in
\* turn, with a system message at position p (none for p = 0); for n = 0
\* the session does not exist yet
StoredLog(n, p) ==
    [i \in 1..n |->
        [message_idx |-> i - 1,
         msg |-> [id |-> <<0, i>>,
                  kind |-> IF i = p THEN "system"
                           ELSE IF i % 2 = 1 THEN "request" ELSE "response"],
         content |-> Dump([id |-> <<0, i>>,
                           kind |-> IF i = p THEN "system"
                                    ELSE IF i % 2 = 1 THEN "request" ELSE "response"])]]

InitLongChat ==
    /\ InitIndex /\ InitDelete /\ InitNoCall /\ InitGet /\ InitNoFollowUp /\ InitNoPii
    /\ \E n \in {0} \cup (HistoryLimit - 1)..MaxLog : \E p \in {0, 1, n} :
          /\ chatRows =
                [s \in SessionIds |-> IF s = LongSession /\ n > 0 THEN 1 ELSE 0]
          /\ chatMessages =
                [s \in SessionIds |-> IF s = LongSession THEN StoredLog(n, p) ELSE <<>>]
    /\ rpc = [q \in Reqs |-> "idle"]
    /\ given = [q \in Reqs |-> NoId]
    /\ session_id = [q \in Reqs |-> NoId]
    /\ is_new_session = [q \in Reqs |-> FALSE]
    /\ chat = [q \in Reqs |-> "unset"]
    /\ message_history = [q \in Reqs |-> None]
    /\ new_messages = [q \in Reqs |-> <<>>]
    /\ response = [q \in Reqs |-> NoResponse]
    /\ model_calls = [q \in Reqs |-> 0]

SpecLongChat == InitLongChat /\ [][NextTurns]_vars

\* "if len(message_history) > 20"
Truncated(q) ==
    ~message_history[q].isNone /\ Len(message_history[q].list) > HistoryLimit

\* the agent of request q got the most recent HistoryLimit non-system
\* messages of the loaded history, and no other non-system message
AgentGotRecent(q) ==
    /\ Len(SelectSeq(AgentHistory(q), IsOther)) <= HistoryLimit
    /\ SelectSeq(AgentHistory(q), IsOther)
          = LastN(SelectSeq(message_history[q].list, IsOther), HistoryLimit)

IsPrefix(a, b) == Len(a) <= Len(b) /\ SubSeq(b, 1, Len(a)) = a

\* C32: a request whose loaded history has more than 20 messages hands the
\* agent at most 20 non-system messages, the most recent ones; no step
\* shortens or rewrites a session's log, and the save of such a request
\* leaves the log it found followed by the rows of the new messages.
C32_TruncationOnlyForAgent ==
    [][/\ \A q \in Turns :
            /\ (rpc[q] \in {"ready", "ran", "done"} /\ Truncated(q)
                   => AgentGotRecent(q))'
            /\ rpc[q] = "ran" /\ rpc'[q] = "done" /\ response'[q].code = 200
                /\ Truncated(q)
                  => LET was == chatMessages[session_id[q]]
                         is == chatMessages'[session_id[q]]
                     IN  /\ Len(is) = Len(was) + Len(new_messages[q])
                         /\ [i \in 1..Len(new_messages[q]) |-> is[Len(was) + i].msg]
                               = new_messages[q]
       /\ \A s \in SessionIds : IsPrefix(chatMessages[s], chatMessages'[s])]_vars

\* a turn on a log of more than 20 rows, a system message among them, was
\* answered: the agent had the system message and 20 others, the log has
\* all its rows and the new ones
C32_Witness ==
    \E q \in Turns :
        /\ rpc[q] = "done" /\ response[q].code = 200 /\ Truncated(q)
        /\ Len(AgentHistory(q)) = HistoryLimit + 1
        /\ Len(message_history[q].list) > HistoryLimit + 1
        /\ Len(chatMessages[session_id[q]])
              = Len(message_history[q].list) + Len(new_messages[q])

(***************************************************************************)
(* truncate_message_history, called twice                                  *)
(***************************************************************************)
\* C33: truncate_message_history(truncate_message_history(h, m), m) is
\* truncate_message_history(h, m) for every history h and every m >= 0, and
\* no call changes the list it was given.
C33_TruncateIdempotent ==
    [][/\ fnCalled' = "truncate again" => fnResult' = fnResult
       /\ fnHistory' = fnHistory]_vars

\* a history was cut to its system message and the newest others, which is
\* still longer than the limit, and was cut again
C33_Witness ==
    /\ fnCalled = "truncate again"
    /\ fnMax >= 1
    /\ Len(fnResult) > fnMax
    /\ Len(fnResult) < Len(fnHistory)
    /\ fnResult = truncate_message_history(fnHistory, fnMax)

(***************************************************************************)
(* combine_message_histories: identities of the result                     *)
(***************************************************************************)
\* no two messages of l have the same id
DistinctIds(l) ==
    \A i, j \in DOMAIN l : (i # j /\ HasId(l[i]) /\ HasId(l[j])) => l[i].id # l[j].id

\* C34: if no two messages of existing share an id, no two messages of
\* combine_message_histories(existing, new) share an id, whatever new is,
\* a new list that holds an id twice included.
C34_ResultHasDistinctIds ==
    (fnCalled = "combine" /\ DistinctIds(fnHistory)) => DistinctIds(fnResult)

(***************************************************************************)
(* mark_documents_as_indexed(db, document_ids), called on its own as call  *)
(* 1 with any list of distinct ids, the empty list included                *)
(***************************************************************************)
IdLists == UNION {Orders(S) : S \in {T \in SUBSET Docs : Cardinality(T) <= MaxIds}}

InitMark ==
    /\ InitChat /\ InitDelete /\ InitNoCall /\ InitGet /\ InitNoFollowUp /\ InitNoPii
    /\ is_indexed = [d \in Docs |-> d \in InitiallyIndexed]
    /\ namespaces = {CollectionOf(d) : d \in InitiallyIndexed}
    /\ vstore = {[ns |-> CollectionOf(d), run |-> 0, doc |-> d, chunk |-> k,
                   last_crawled |-> 0] :
                    d \in InitiallyIndexed, k \in 1..1}
    /\ pc = [r \in Runs |-> IF r = 1 THEN "marking" ELSE "idle"]
    /\ coll = [r \in Runs |-> "c1"]
    /\ \E ids \in IdLists : documents = [r \in Runs |-> IF r = 1 THEN ids ELSE <<>>]
    /\ markPos = [r \in Runs |-> 0]
    /\ stats = [r \in Runs |-> NoStats]
    /\ endedAt = [r \in Runs |-> "none"]
    /\ upserted = [r \in Runs |-> FALSE]
    /\ marked = [r \in Runs |-> {}]
    /\ clock = 1
    /\ last_crawled = [d \in Docs |-> 0]
    /\ indexed_at = [d \in Docs |-> IF d \in InitiallyIndexed THEN 0 ELSE NULL]
    /\ now = [r \in Runs |-> IF r = 1 THEN 1 ELSE 0]
    /\ doc_crawled = [r \in Runs |-> [d \in Docs |-> 0]]
    /\ trigger = [r \in Runs |-> "none"]
    /\ log = [r \in Runs |-> "none"]

\* "if not document_ids: return", or the loop is over: the function returns
MarkReturn(r) ==
    /\ pc[r] = "marking"
    /\ markPos[r] >= Len(document_ids(r))
    /\ pc' = [pc EXCEPT ![r] = "marked"]
    /\ UNCHANGED <<is_indexed, namespaces, vstore, coll, documents, markPos,
                   stats, endedAt, upserted, marked>>
    /\ UNCHANGED <<timeVars, bgVars>>
    /\ UNCHANGED outsideIndex

\* execute or commit of the current slice raises: rollback, re-raise
MarkRaise(r) ==
    /\ pc[r] = "marking"
    /\ markPos[r] < Len(document_ids(r))
    /\ is_indexed' = FlagsAfterMarkFailure(r)
    /\ pc' = [pc EXCEPT ![r] = "raised"]
    /\ endedAt' = [endedAt EXCEPT ![r] = "marking"]
    /\ UNCHANGED <<namespaces, vstore, coll, documents, markPos, stats,
                   upserted, marked>>
    /\ UNCHANGED <<timeVars, bgVars>>
    /\ UNCHANGED outsideIndex

NextMark == MarkBatch(1) \/ MarkRaise(1) \/ MarkReturn(1)

SpecMark == InitMark /\ [][NextMark]_vars

\* document_ids[i:i+batch_size] for i = markPos, as a list
SliceAt(ids, i) == SubSeq(ids, i + 1, Min(i + batch_size, Len(ids)))

\* ceil(n / batch_size)
CeilBatches(n) == (n + batch_size - 1) \div batch_size

\* C35: mark_documents_as_indexed(ids) makes ceil(len(ids)/batch_size)
\* steps of UPDATE and commit (batch_size is 100 in the source).  The k-th
\* step takes the slice of at most batch_size ids that starts where the
\* (k-1)-th ended, so that the slices are consecutive, disjoint, in list
\* order and cover every id once; every step stamps its rows with the one
\* timestamp taken before the loop.  For the empty list there is no step.
C35_MarkInSlices ==
    [][LET ids == document_ids(1)
           i == markPos[1]
       IN  /\ now'[1] = now[1]
           /\ Marking(1)
                => /\ i % batch_size = 0
                   /\ i = Cardinality(marked[1])
                   /\ batch_ids(1) = Range(SliceAt(ids, i))
                   /\ Len(SliceAt(ids, i)) \in 1..batch_size
                   /\ Range(SliceAt(ids, i)) \cap marked[1] = {}
                   /\ marked'[1] = marked[1] \cup Range(SliceAt(ids, i))
                   /\ markPos'[1] = i + batch_size
                   /\ \A d \in Docs :
                         IF d \in Range(SliceAt(ids, i))
                         THEN is_indexed'[d] /\ indexed_at'[d] = now[1]
                         ELSE /\ is_indexed'[d] = is_indexed[d]
                              /\ indexed_at'[d] = indexed_at[d]
           /\ ~Marking(1) => UNCHANGED <<is_indexed, indexed_at, marked>>
           /\ pc'[1] = "marked"
                => /\ marked[1] = Range(ids)
                   /\ i = batch_size * CeilBatches(Len(ids))
                   /\ ids = <<>> => i = 0 /\ marked[1] = {}]_vars

\* three ids were marked in two steps, two and one, and the call returned
C35_Witness ==
    /\ pc[1] = "marked"
    /\ Len(document_ids(1)) = batch_size + 1
    /\ markPos[1] = 2 * batch_size
    /\ marked[1] = Range(document_ids(1))
    /\ \A d \in marked[1] : is_indexed[d] /\ indexed_at[d] = now[1]

(***************************************************************************)
(* The agent of a request                                                  *)
(***************************************************************************)
\* C36: generate_agent supplies the instructions exactly when it is given
\* no history; the agent of a request whose loaded history is None or
\* empty has the instructions and no history, the agent of a request with
\* a non-empty history has that history and no instructions.
C36_InstructionsIffNoHistory ==
    /\ \A l \in {<<>>, <<Message(1, 1)>>} :
          /\ generate_agent(List(l)).instructions = "None"
          /\ generate_agent(List(l)).message_history = List(l)
    /\ generate_agent(None) = [instructions |-> "SYSTEM_PROMPT", message_history |-> None]
    /\ \A q \in Reqs :
          rpc[q] \in {"ready", "ran"} =>
             IF message_history[q].isNone \/ message_history[q].list = <<>>
             THEN agent(q) = [instructions |-> "SYSTEM_PROMPT", message_history |-> None]
             ELSE /\ agent(q).instructions = "None"
                  /\ ~agent(q).message_history.isNone
                  /\ agent(q).message_history.list
                        = IF Len(message_history[q].list) > HistoryLimit
                          THEN truncate_message_history(message_history[q].list,
                                                        HistoryLimit)
                          ELSE message_history[q].list

\* one request runs on a session that exists without messages (its loaded
\* history is the empty list), another on a session with messages
C36_Witness ==
    \E q, p \in Reqs :
        /\ rpc[q] = "ran" /\ rpc[p] = "ran"
        /\ ~message_history[q].isNone /\ message_history[q].list = <<>>
        /\ agent(q).instructions = "SYSTEM_PROMPT"
        /\ ~message_history[p].isNone /\ message_history[p].list # <<>>
        /\ agent(p).instructions = "None"

(***************************************************************************)
(* redact_pii(text, matches) with a match list made by the caller          *)
(***************************************************************************)
\* the texts: None, the empty string and the first n characters of "07 a@"
GivenText == <<"0", "7", " ", "a", "@", "b">>
GivenTexts == {NoneText} \cup {SubSeq(GivenText, 1, n) : n \in 0..MaxText}

\* PIIMatch(kind, match, start, end) for a span of the text
PIIMatch(text, kind, a, b) ==
    [kind |-> kind, match |-> Slice(text, a, b), start |-> a, end |-> b]

SpansOf(text) ==
    IF Falsy(text) THEN {}
    ELSE {m \in {PIIMatch(text, kind, a, b) :
                    kind \in {"email", "national_id"},
                    a \in 0..(Len(text) - 1), b \in 1..Len(text)} :
             m.start < m.end}

NonOverlapping(ms) ==
    \A i, j \in DOMAIN ms :
        i # j => ms[i].end <= ms[j].start \/ ms[j].end <= ms[i].start

\* the lists of at most MaxSpans pairwise non-overlapping matches, in any
\* order
MatchLists(text) ==
    {ms \in UNION {[1..n -> SpansOf(text)] : n \in 0..MaxSpans} : NonOverlapping(ms)}

InitRedact ==
    /\ InitIndex /\ InitChat /\ InitDelete /\ InitNoCall /\ InitGet /\ InitNoFollowUp
    /\ piiText \in GivenTexts
    /\ piiMatches \in MatchLists(piiText)
    /\ piiRedacted = <<>>
    /\ piiRescan = <<>>
    /\ piiCalled = "given"

\* red = redact_pii(text, matches) with the caller's list
CallRedactGiven ==
    /\ piiCalled = "given"
    /\ piiRedacted' = redact_pii(piiText, piiMatches)
    /\ piiCalled' = "redacted"
    /\ UNCHANGED <<piiText, piiMatches, piiRescan>>
    /\ UNCHANGED outsidePii

SpecRedact == InitRedact /\ [][CallRedactGiven \/ CallRescan]_vars

\* the text read from offset p on, every span of ms replaced by its
\* placeholder and every other character kept
RECURSIVE SpansReplaced(_, _, _)
SpansReplaced(text, ms, p) ==
    IF p >= Len(text) THEN <<>>
    ELSE IF \E i \in DOMAIN ms : ms[i].start = p
    THEN LET i == CHOOSE i \in DOMAIN ms : ms[i].start = p
         IN  Placeholder(ms[i].kind) \o SpansReplaced(text, ms, ms[i].end)
    ELSE <<text[p + 1]>> \o SpansReplaced(text, ms, p + 1)

\* C37: for a text and a list of pairwise non-overlapping matches, in any
\* order, redact_pii(text, matches) is the text with each span [start, end)
\* replaced by <KIND_REDACTED> and every other character in place; for the
\* empty string and for None it is the input, and detect_pii of the input
\* is the empty list.
C37_RedactReplacesSpans ==
    (piiCalled \in {"redacted", "rescanned"} /\ NonOverlapping(piiMatches)) =>
        IF Falsy(piiText)
        THEN /\ piiRedacted = piiText
             /\ detect_pii(piiText) = <<>>
             /\ piiCalled = "rescanned" => piiRescan = <<>>
        ELSE piiRedacted = SpansReplaced(piiText, piiMatches, 0)

\* two matches given with the earlier span first (the sort turns them
\* round), both replaced in place
C37_Witness ==
    /\ piiCalled = "redacted"
    /\ Len(piiMatches) = 2
    /\ piiMatches[1].end <= piiMatches[2].start
    /\ piiMatches[1].kind = "national_id" /\ piiMatches[2].kind = "email"
    /\ piiMatches[1].start = 1 /\ piiMatches[2].end = Len(piiText) - 1
    /\ piiRedacted = <<piiText[1]>> \o Placeholder("national_id")
                      \o SubSeq(piiText, piiMatches[1].end + 1, piiMatches[2].start)
                      \o Placeholder("email") \o <<piiText[Len(piiText)]>>

(***************************************************************************)
(* app/models/follow_up_questions.py: FollowUpQuestions                    *)
(***************************************************************************)
\* the limit add_question tests
max_items == 10

\* FollowUpQuestion objects, by priority
Question == {[question |-> "q", priority |-> p] : p \in {"high", "medium"}}

\* 'total_count' not in data
NotProvided == NULL

\* __init__: total_count is the validated argument, or len(questions) when
\* the argument is absent or 0
CountAfterInit(count, qs) ==
    IF count = NotProvided \/ count = 0 THEN Len(qs) ELSE count

\* FollowUpQuestions(questions=qs[, total_count=count]); the fields are
\* validated: questions is a list of FollowUpQuestion of any length,
\* total_count >= 0
InitFollowUp ==
    /\ InitIndex /\ InitChat /\ InitDelete /\ InitNoCall /\ InitGet /\ InitNoPii
    /\ \E qs \in UNION {[1..n -> Question] : n \in 0..MaxQuestions} :
       \E count \in {NotProvided} \cup 0..MaxCount :
          /\ questions = qs
          /\ total_count = CountAfterInit(count, qs)

\* add_question(question)
add_question(question) ==
    /\ IF Len(questions) < max_items
       THEN /\ questions' = Append(questions, question)
            /\ total_count' = Len(questions')
       ELSE UNCHANGED <<questions, total_count>>
    /\ UNCHANGED <<idxVars, chatVars, delVars, fnVars, getVars, piiVars>>

NextFollowUp == \E question \in Question : add_question(question)

SpecFollowUp == InitFollowUp /\ [][NextFollowUp]_vars

\* C38: in every FollowUpQuestions object, as constructed and after any
\* calls of add_question, total_count = len(questions) and len(questions)
\* is at most 10.
C38_CountIsLength ==
    total_count = Len(questions) /\ Len(questions) <= max_items

====
